---- MODULE Spec2Model ----
(***************************************************************************)
(* Search subsystem of the bookmark manager.                               *)
(*                                                                         *)
(*  - the embedded index (services/tantivy_index.rs): one IndexWriter      *)
(*    behind a Mutex, one IndexReader serving point-in-time snapshots;     *)
(*  - the shadow index (services/indexer_service.rs,                       *)
(*    services/resource_service.rs, services/search_service.rs): the      *)
(*    resources_fts table written in the transaction of the primary row.   *)
(*                                                                         *)
(* Text is a sequence of one-character strings, so that tokenising,        *)
(* lower-casing, trimming and edit distance are computed, not assumed.     *)
(***************************************************************************)
EXTENDS Integers, Sequences, FiniteSets, TLC

(***************************************************************************)
(* Bounds of the model.                                                    *)
(***************************************************************************)
\* most documents the writer holds at a time
MaxDocs == 2
\* most rows ever inserted into the resources table
MaxResources == 2

(***************************************************************************)
(* Option<T>: None is the empty sequence, Some(x) a sequence of length 1.  *)
(***************************************************************************)
None == <<>>
Some(x) == <<x>>

(***************************************************************************)
(* Characters and text.                                                    *)
(***************************************************************************)
Whitespace == {" "}
Punctuation == {".", "-", ":", "/", "$", "?", "#"}

\* char::is_alphanumeric, the split criterion of the "default" tokenizer
IsAlphanumeric(c) == c \notin (Whitespace \cup Punctuation)

\* LowerCaser of the "default" tokenizer
to_lowercase(c) ==
    CASE c = "R" -> "r"
      [] c = "G" -> "g"
      [] c = "J" -> "j"
      [] OTHER -> c

LowerText(w) == [i \in 1..Len(w) |-> to_lowercase(w[i])]

RECURSIVE SplitTokens(_, _, _)
\* SimpleTokenizer: maximal runs of alphanumeric characters, in order
SplitTokens(text, i, cur) ==
    LET flush == IF cur = <<>> THEN <<>> ELSE <<cur>>
    IN  IF i > Len(text) THEN flush
        ELSE IF IsAlphanumeric(text[i])
             THEN SplitTokens(text, i + 1, Append(cur, text[i]))
             ELSE flush \o SplitTokens(text, i + 1, <<>>)

\* the terms the "default" tokenizer (SimpleTokenizer + LowerCaser) indexes
Tokenize(text) ==
    LET toks == SplitTokens(text, 1, <<>>)
    IN  {LowerText(toks[i]) : i \in 1..Len(toks)}

RECURSIVE join(_, _)
\* [String]::join(sep)
join(strs, sep) ==
    IF strs = <<>> THEN <<>>
    ELSE IF Len(strs) = 1 THEN strs[1]
    ELSE strs[1] \o sep \o join(Tail(strs), sep)

\* a with the character at position i removed
RemoveAt(a, i) == [j \in 1..(Len(a) - 1) |-> IF j < i THEN a[j] ELSE a[j + 1]]

\* a with the characters at positions i and i+1 swapped
SwapAt(a, i) ==
    [j \in 1..Len(a) |-> IF j = i THEN a[i + 1] ELSE IF j = i + 1 THEN a[i] ELSE a[j]]

\* a with character c inserted before position i
InsertAt(a, i, c) ==
    [j \in 1..(Len(a) + 1) |-> IF j < i THEN a[j] ELSE IF j = i THEN c ELSE a[j - 1]]

\* a with the character at position i replaced by c
ReplaceAt(a, i, c) == [j \in 1..Len(a) |-> IF j = i THEN c ELSE a[j]]

\* the characters a misspelling puts in: a letter, a capital, a separator
TypoChars == {"y", "R", "-"}

\* the one-edit misspellings of a word: a character left out, put in or
\* replaced, two neighbours swapped
Misspellings(w) ==
    ({RemoveAt(w, i) : i \in 1..Len(w)}
        \cup {SwapAt(w, i) : i \in 1..(Len(w) - 1)}
        \cup {InsertAt(w, i, c) : i \in 1..(Len(w) + 1), c \in TypoChars}
        \cup {ReplaceAt(w, i, c) : i \in 1..Len(w), c \in TypoChars}) \ {w}

\* edit distance of FuzzyTermQuery::new(term, 1, true)
FUZZY_DISTANCE == 1

\* Levenshtein automaton of FuzzyTermQuery::new(term, 1, false): a swap of two
\* neighbours costs two edits
FuzzyTermMatchesNoSwap(term, token) ==
    \/ term = token
    \/ /\ FUZZY_DISTANCE >= 1
       /\ \/ /\ Len(term) = Len(token)
             /\ \E i \in 1..Len(term) :
                    \A j \in 1..Len(term) : j # i => term[j] = token[j]
          \/ /\ Len(term) = Len(token) + 1
             /\ \E i \in 1..Len(term) : RemoveAt(term, i) = token
          \/ /\ Len(token) = Len(term) + 1
             /\ \E i \in 1..Len(token) : RemoveAt(token, i) = term

\* Levenshtein automaton of distance FUZZY_DISTANCE, a transposition costing one
FuzzyTermMatches(term, token) ==
    \/ term = token
    \/ /\ FUZZY_DISTANCE >= 1
       /\ \/ /\ Len(term) = Len(token)
             /\ \E i \in 1..Len(term) :
                    \A j \in 1..Len(term) : j # i => term[j] = token[j]
          \/ /\ Len(term) = Len(token)
             /\ \E i \in 1..(Len(term) - 1) : SwapAt(term, i) = token
          \/ /\ Len(term) = Len(token) + 1
             /\ \E i \in 1..Len(term) : RemoveAt(term, i) = token
          \/ /\ Len(token) = Len(term) + 1
             /\ \E i \in 1..Len(token) : RemoveAt(token, i) = term

(***************************************************************************)
(* The bookmarks handed to the index manager (BookmarkWithTags).           *)
(***************************************************************************)
T_RustGo == <<"R", "u", "s", "t", " ", "G", "o">>
T_Ruby   == <<"R", "u", "b", "y">>
T_Java   == <<"j", "a", "v", "a">>
T_rust   == <<"r", "u", "s", "t">>
T_ruts   == <<"r", "u", "t", "s">>
T_rusty  == <<"r", "u", "s", "t", "y">>
T_go     == <<"g", "o">>
T_fast   == <<"f", "a", "s", "t">>
T_jvm    == <<"j", "v", "m">>
T_url_r  == <<"h", "t", "t", "p", ":", "/", "/", "r", ".", "i", "o">>
T_url_j  == <<"h", "t", "t", "p", ":", "/", "/", "j", ".", "i", "o">>

Users == {1, 2}

Bookmarks ==
    { [id |-> 1, user_id |-> 1, title |-> T_RustGo, url |-> T_url_r,
       description |-> Some(T_fast), tags |-> <<T_rust>>],
      [id |-> 1, user_id |-> 1, title |-> T_Ruby, url |-> T_url_r,
       description |-> None, tags |-> <<>>],
      [id |-> 2, user_id |-> 2, title |-> T_RustGo, url |-> T_url_r,
       description |-> Some(T_fast), tags |-> <<T_rust>>],
      [id |-> 3, user_id |-> 1, title |-> T_Java, url |-> T_url_j,
       description |-> None, tags |-> <<T_jvm, T_fast>>] }

BookmarkIds == {b.id : b \in Bookmarks}

\* a bookmark that holds one word in its title, description and tags
FastBookmark ==
    [id |-> 3, user_id |-> 1, title |-> T_fast, url |-> T_url_r,
     description |-> Some(T_fast), tags |-> <<T_fast>>]

\* query strings handed to search()
Queries == {<<>>, T_rust, T_ruts, T_go, T_Java, T_Ruby, T_RustGo, T_fast, T_jvm, T_url_r}


(***************************************************************************)
(* TantivyIndexManager: documents, queries, search.                        *)
(***************************************************************************)
TextFields == {"title", "url", "description", "tags"}

\* the text add_bookmark puts into each text field: description only when
\* Some, tags only when the list is not empty, joined by one space
FieldText(b, field) ==
    CASE field = "title" -> Some(b.title)
      [] field = "url" -> Some(b.url)
      [] field = "description" -> b.description
      [] field = "tags" -> IF b.tags # <<>> THEN Some(join(b.tags, <<" ">>)) ELSE None

\* the TantivyDocument add_bookmark builds, with the terms the index holds
\* for each text field (tags is indexed and not stored)
MakeDocument(b) ==
    [id |-> b.id, user_id |-> b.user_id,
     title |-> b.title, url |-> b.url, description |-> b.description,
     terms |-> [field \in TextFields |->
                   IF FieldText(b, field) = None THEN {}
                   ELSE Tokenize(FieldText(b, field)[1])]]

\* the terms of one text field of an indexed document
FieldTerms(doc, field) == doc.terms[field]

\* every term the index can hold, and every string searched for
AllTerms == UNION {MakeDocument(b).terms[field] : b \in Bookmarks, field \in TextFields}
QueryStrings ==
    Queries \cup AllTerms \cup UNION {Misspellings(w) : w \in AllTerms}
        \cup UNION {{FieldText(b, f)[1] : f \in {g \in TextFields : FieldText(b, g) # None}} :
                        b \in Bookmarks}

\* the Levenshtein automaton of each query string, run over the term
\* dictionary: the (query string, term) pairs it accepts
FuzzyTerms ==
    {<<p[1], p[2]>> : p \in {q \in QueryStrings \X AllTerms : FuzzyTermMatches(q[1], q[2])}}

\* FuzzyTermQuery on one field: the whole query string is one term
FuzzyFieldMatches(doc, field, query_str) ==
    IF query_str \in QueryStrings
    THEN \E token \in FieldTerms(doc, field) : <<query_str, token>> \in FuzzyTerms
    ELSE \E token \in FieldTerms(doc, field) : FuzzyTermMatches(query_str, token)

\* build_text_query: the four fuzzy queries combined with Occur::Should
build_text_query(doc, query_str) ==
    \E field \in TextFields : FuzzyFieldMatches(doc, field, query_str)

\* build_query with the user_id clause left out
build_query_any_user(doc, query_str, user_id) ==
    query_str # <<>> => build_text_query(doc, query_str)

\* build_query: Occur::Must on user_id, and Occur::Must on the text query
\* when the query string is not empty
build_query(doc, query_str, user_id) ==
    /\ doc.user_id = user_id
    /\ query_str # <<>> => build_text_query(doc, query_str)

\* score of a hit: every matching fuzzy clause contributes the same constant
Score(doc, query_str) ==
    Cardinality({field \in TextFields : FuzzyFieldMatches(doc, field, query_str)})

\* addresses (positions in the snapshot) of the documents the query matches
Matching(snapshot, query_str, user_id) ==
    {a \in 1..Len(snapshot) : build_query(snapshot[a], query_str, user_id)}

\* the hits of a query: <<score, address>> of every matching document
Hits(snapshot, query_str, user_id) ==
    {<<Score(snapshot[a], query_str), a>> : a \in Matching(snapshot, query_str, user_id)}

RECURSIVE Ranked(_)
\* the addresses of the hits by decreasing score, ties by address
Ranked(hits) ==
    IF hits = {} THEN <<>>
    ELSE LET best == CHOOSE h \in hits :
                        \A o \in hits :
                            \/ h[1] > o[1]
                            \/ h[1] = o[1] /\ h[2] <= o[2]
         IN  <<best[2]>> \o Ranked(hits \ {best})

Min(a, b) == IF a < b THEN a ELSE b

\* TopDocs::with_limit(limit), then skip(offset).take(limit)
PageOfLimit(ranked, limit, offset) ==
    SubSeq(ranked, offset + 1, Min(Len(ranked), limit))

\* TopDocs::with_limit(limit + offset), then skip(offset).take(limit)
Page(ranked, limit, offset) ==
    SubSeq(ranked, offset + 1, Min(Len(ranked), limit + offset))

\* the page of record ids read from the stored id of the top documents, and
\* the total of the Count collector run on the same Searcher
SearchResponse(snapshot, ranked, limit, offset) ==
    [results |-> [i \in 1..Len(Page(ranked, limit, offset)) |->
                     snapshot[Page(ranked, limit, offset)[i]].id],
     total |-> Len(ranked)]

\* search(): TopDocs and Count over the documents that build_query matches
\* in the snapshot reader.searcher() hands out
search(snapshot, query_str, user_id, limit, offset) ==
    SearchResponse(snapshot, Ranked(Hits(snapshot, query_str, user_id)), limit, offset)

\* get_stats(): AllQuery counted on the reader's snapshot
get_stats(snapshot) == Len(snapshot)

\* the elements of a sequence
Range(seq) == {seq[i] : i \in 1..Len(seq)}

\* the record ids of a search response
ResultIds(resp) == Range(resp.results)

\* delete_query with AllQuery in place of the id term
DeleteEverything(docs, bookmark_id) == <<>>

\* writer.delete_query(TermQuery(id)): every document with that id goes
DeleteById(docs, bookmark_id) ==
    LET Keep(d) == d.id # bookmark_id IN SelectSeq(docs, Keep)

\* delete_query with the term built on the id field in place of user_id
DeleteByUserOnIdField(docs, user_id) ==
    LET Keep(d) == d.id # user_id IN SelectSeq(docs, Keep)

\* writer.delete_query(TermQuery(user_id)): every document of that user goes
DeleteByUser(docs, user_id) ==
    LET Keep(d) == d.user_id # user_id IN SelectSeq(docs, Keep)

\* the addresses of the documents with a record id
DocsOf(snapshot, bookmark_id) ==
    {a \in 1..Len(snapshot) : snapshot[a].id = bookmark_id}

\* does the document list hold a document with this record id
IdIndexed(docs, bookmark_id) == \E a \in 1..Len(docs) : docs[a].id = bookmark_id

(***************************************************************************)
(* TantivySearchService: the query string handed to the index manager.     *)
(***************************************************************************)
SearchTypes == {"Title", "Content", "Url", "All"}

\* the literal of format!("title:{}"), format!("description:{}"), format!("url:{}")
FieldPrefix(search_type) ==
    CASE search_type = "Title" -> <<"t", "i", "t", "l", "e", ":">>
      [] search_type = "Content" ->
             <<"d", "e", "s", "c", "r", "i", "p", "t", "i", "o", "n", ":">>
      [] search_type = "Url" -> <<"u", "r", "l", ":">>
      [] search_type = "All" -> <<>>

\* TantivySearchService::build_search_query(filters)
build_search_query(search_type, query) == FieldPrefix(search_type) \o query

\* TantivySearchService::tantivy_search(filters, user_id, index_manager)
tantivy_search(snapshot, search_type, query, user_id, limit, offset) ==
    search(snapshot, build_search_query(search_type, query), user_id, limit, offset)

(***************************************************************************)
(* State.                                                                  *)
(***************************************************************************)
VARIABLES
    writer,        \* IndexWriter: committed segments with the buffered adds and deletes applied
    committed,     \* the documents of the last commit, in document order
    searcher,      \* the snapshot reader.searcher() hands out (last reload)
    writer_lock,   \* holder of the Mutex<IndexWriter>, or NoThread
    pc,            \* per caller: the call it is in
    arg,           \* per caller: the argument of that call
    hist,          \* history: the last mutation call and the snapshot it started from
    resources,     \* table resources: id -> row
    tags,          \* table tags: id -> row
    resource_tags, \* table resource_tags: set of <<resource_id, tag_id>>
    resources_fts, \* table resources_fts: rowid -> row
    next_id,       \* AUTOINCREMENT sequences of resources, tags and bookmarks
    reply,         \* what the last service call returned
    field_cache,   \* holder of the Mutex<HashMap<String, Field>>, or NoThread
    tx,            \* the open transaction of a running rebuild_index, or None
    bookmarks,     \* table bookmarks (with the tag names of bookmark_tags): id -> row
    bookmarks_fts, \* table bookmarks_fts: rowid -> row
    startup,       \* the process: down, in check_and_rebuild_fts, or past it
    rebuild        \* the background task running rebuild_fts_index

indexVars  == <<writer, committed, searcher, writer_lock, pc, arg, hist>>
shadowVars == <<resources, tags, resource_tags, resources_fts, next_id, reply>>
bookmarkVars == <<bookmarks, bookmarks_fts, startup, rebuild>>
vars == <<writer, committed, searcher, writer_lock, pc, arg, hist,
          resources, tags, resource_tags, resources_fts, next_id, reply,
          field_cache, tx, bookmarks, bookmarks_fts, startup, rebuild>>
\* what a call on the index manager alone leaves as it is
offIndex == <<shadowVars, field_cache, tx, bookmarkVars>>

Threads == {"t1", "t2"}
NoThread == "none"

NoArg == [id |-> 0, user_id |-> 0, b |-> None]
BookmarkArg(b) == [id |-> b.id, user_id |-> b.user_id, b |-> Some(b)]
IdArg(bookmark_id) == [id |-> bookmark_id, user_id |-> 0, b |-> None]
UserArg(user_id) == [id |-> 0, user_id |-> user_id, b |-> None]

\* no background task
NoTask == [pc |-> "none", rows |-> <<>>, count |-> 0]

NoHist == [op |-> "none", arg |-> NoArg, base |-> <<>>, phase |-> "none"]

\* writer, last commit and reader snapshot agree and no call is in progress
InSync == /\ writer = committed
          /\ committed = searcher
          /\ \A u \in Threads : pc[u] = "idle"

\* history of a mutation call that starts now
StartHist(op, a) ==
    IF InSync THEN [op |-> op, arg |-> a, base |-> searcher, phase |-> "called"]
    ELSE NoHist

\* history across a step that changes the writer
KeepHist == IF hist.phase = "called" THEN hist ELSE NoHist

\* calls that add a document when they finish
Adding == {"add", "update_delete", "update_unlocked", "update_add"}

\* room for one more document
Room == Len(writer) + Cardinality({u \in Threads : pc[u] \in Adding}) < MaxDocs

\* the caller's record id is new: no document and no call in progress uses it
FreshId(bookmark_id) ==
    /\ ~IdIndexed(writer, bookmark_id)
    /\ \A u \in Threads : pc[u] # "idle" => arg[u].id # bookmark_id

(***************************************************************************)
(* TantivyIndexManager: the calls.  A call takes the writer Mutex in one   *)
(* step and runs its body, dropping the guard, in the next one.            *)
(***************************************************************************)
\* self.writer.lock() at the start of call op
LockWriter(t, op, a) ==
    /\ pc[t] = "idle"
    /\ writer_lock = NoThread
    /\ writer_lock' = t
    /\ pc' = [pc EXCEPT ![t] = op]
    /\ arg' = [arg EXCEPT ![t] = a]

\* the MutexGuard is dropped when the function returns
Unlock(t, next_pc) ==
    /\ writer_lock' = NoThread
    /\ pc' = [pc EXCEPT ![t] = next_pc]
    /\ arg' = IF next_pc = "idle" THEN [arg EXCEPT ![t] = NoArg] ELSE arg

add_bookmark_lock(t, b) ==
    /\ FreshId(b.id)
    /\ Room
    /\ LockWriter(t, "add", BookmarkArg(b))
    /\ hist' = StartHist("add", BookmarkArg(b))
    /\ UNCHANGED <<writer, committed, searcher>>
    /\ UNCHANGED offIndex

\* add_bookmark that also commits the writer
add_bookmark_committing(t) ==
    /\ pc[t] = "add"
    /\ writer_lock = t
    /\ writer' = Append(writer, MakeDocument(arg[t].b[1]))
    /\ committed' = writer'
    /\ hist' = KeepHist
    /\ Unlock(t, "idle")
    /\ UNCHANGED searcher
    /\ UNCHANGED offIndex

add_bookmark(t) ==
    /\ pc[t] = "add"
    /\ writer_lock = t
    /\ writer' = Append(writer, MakeDocument(arg[t].b[1]))
    /\ hist' = KeepHist
    /\ Unlock(t, "idle")
    /\ UNCHANGED <<committed, searcher>>
    /\ UNCHANGED offIndex

\* update_bookmark, first half: delete_bookmark_internal takes the lock
update_bookmark_lock(t, b) ==
    /\ Room
    /\ LockWriter(t, "update_delete", BookmarkArg(b))
    /\ hist' = StartHist("update", BookmarkArg(b))
    /\ UNCHANGED <<writer, committed, searcher>>
    /\ UNCHANGED offIndex

\* update_bookmark whose delete step deletes nothing
update_bookmark_keep(t) ==
    /\ pc[t] = "update_delete"
    /\ writer_lock = t
    /\ hist' = KeepHist
    /\ Unlock(t, "update_unlocked")
    /\ UNCHANGED <<writer, committed, searcher>>
    /\ UNCHANGED offIndex

\* update_bookmark: delete_bookmark_internal runs and returns, the guard is dropped
update_bookmark_delete(t) ==
    /\ pc[t] = "update_delete"
    /\ writer_lock = t
    /\ writer' = DeleteById(writer, arg[t].id)
    /\ hist' = KeepHist
    /\ Unlock(t, "update_unlocked")
    /\ UNCHANGED <<committed, searcher>>
    /\ UNCHANGED offIndex

\* update_bookmark, second half: add_bookmark takes the lock again
update_bookmark_relock(t) ==
    /\ pc[t] = "update_unlocked"
    /\ writer_lock = NoThread
    /\ writer_lock' = t
    /\ pc' = [pc EXCEPT ![t] = "update_add"]
    /\ UNCHANGED <<writer, committed, searcher, arg, hist>>
    /\ UNCHANGED offIndex

update_bookmark_add(t) ==
    /\ pc[t] = "update_add"
    /\ writer_lock = t
    /\ writer' = Append(writer, MakeDocument(arg[t].b[1]))
    /\ hist' = KeepHist
    /\ Unlock(t, "idle")
    /\ UNCHANGED <<committed, searcher>>
    /\ UNCHANGED offIndex

delete_bookmark_lock(t, bookmark_id) ==
    /\ LockWriter(t, "delete", IdArg(bookmark_id))
    /\ hist' = StartHist("delete", IdArg(bookmark_id))
    /\ UNCHANGED <<writer, committed, searcher>>
    /\ UNCHANGED offIndex

delete_bookmark(t) ==
    /\ pc[t] = "delete"
    /\ writer_lock = t
    /\ writer' = DeleteById(writer, arg[t].id)
    /\ hist' = KeepHist
    /\ Unlock(t, "idle")
    /\ UNCHANGED <<committed, searcher>>
    /\ UNCHANGED offIndex

delete_by_user_lock(t, user_id) ==
    /\ LockWriter(t, "delete_by_user", UserArg(user_id))
    /\ hist' = StartHist("delete_by_user", UserArg(user_id))
    /\ UNCHANGED <<writer, committed, searcher>>
    /\ UNCHANGED offIndex

delete_by_user(t) ==
    /\ pc[t] = "delete_by_user"
    /\ writer_lock = t
    /\ writer' = DeleteByUser(writer, arg[t].user_id)
    /\ hist' = KeepHist
    /\ Unlock(t, "idle")
    /\ UNCHANGED <<committed, searcher>>
    /\ UNCHANGED offIndex

commit_lock(t) ==
    /\ LockWriter(t, "commit", NoArg)
    /\ UNCHANGED <<writer, committed, searcher, hist>>
    /\ UNCHANGED offIndex

\* writer.commit(): the buffered changes become the committed index
commit(t) ==
    /\ pc[t] = "commit"
    /\ writer_lock = t
    /\ committed' = writer
    /\ hist' = IF hist.phase = "called"
               THEN (IF \A u \in Threads \ {t} : pc[u] = "idle"
                     THEN [hist EXCEPT !.phase = "committed"] ELSE NoHist)
               ELSE hist
    /\ Unlock(t, "idle")
    /\ UNCHANGED <<writer, searcher>>
    /\ UNCHANGED offIndex

clear_all_lock(t) ==
    /\ LockWriter(t, "clear_all", NoArg)
    /\ hist' = StartHist("clear_all", NoArg)
    /\ UNCHANGED <<writer, committed, searcher>>
    /\ UNCHANGED offIndex

\* delete_query(AllQuery) and writer.commit() under one guard
clear_all(t) ==
    /\ pc[t] = "clear_all"
    /\ writer_lock = t
    /\ writer' = <<>>
    /\ committed' = <<>>
    /\ hist' = IF hist.phase = "called" /\ \A u \in Threads \ {t} : pc[u] = "idle"
               THEN [hist EXCEPT !.phase = "committed"] ELSE NoHist
    /\ Unlock(t, "idle")
    /\ UNCHANGED searcher
    /\ UNCHANGED offIndex

\* reader.reload(), called explicitly or by ReloadPolicy::OnCommitWithDelay
reload ==
    /\ searcher' = committed
    /\ hist' = IF hist.phase = "committed" THEN [hist EXCEPT !.phase = "reloaded"] ELSE hist
    /\ UNCHANGED <<writer, committed, writer_lock, pc, arg>>
    /\ UNCHANGED offIndex

(***************************************************************************)
(* The field handle cache.  Every lookup of a field handle locks the       *)
(* Mutex<HashMap<String, Field>>: get_field_cached for the length of one   *)
(* lookup, add_bookmark from its first lookup until it returns.            *)
(***************************************************************************)
\* add_bookmark: self.field_cache.lock(), under the writer guard
add_bookmark_cache(t) ==
    /\ pc[t] = "add"
    /\ writer_lock = t
    /\ field_cache = NoThread
    /\ field_cache' = t
    /\ pc' = [pc EXCEPT ![t] = "add_cached"]
    /\ UNCHANGED <<writer, committed, searcher, writer_lock, arg, hist>>
    /\ UNCHANGED <<shadowVars, tx, bookmarkVars>>

\* add_bookmark: the document is built and added, both guards are dropped
add_bookmark_document(t) ==
    /\ pc[t] = "add_cached"
    /\ writer_lock = t
    /\ field_cache = t
    /\ writer' = Append(writer, MakeDocument(arg[t].b[1]))
    /\ field_cache' = NoThread
    /\ hist' = KeepHist
    /\ Unlock(t, "idle")
    /\ UNCHANGED <<committed, searcher>>
    /\ UNCHANGED <<shadowVars, tx, bookmarkVars>>

\* search(): reader.searcher() is taken, build_query is about to look up a field
search_call(t, user_id) ==
    /\ pc[t] = "idle"
    /\ pc' = [pc EXCEPT ![t] = "search"]
    /\ arg' = [arg EXCEPT ![t] = UserArg(user_id)]
    /\ UNCHANGED <<writer, committed, searcher, writer_lock, hist>>
    /\ UNCHANGED offIndex

\* get_field_cached: self.field_cache.lock()
search_get_field_cached(t) ==
    /\ pc[t] = "search"
    /\ field_cache = NoThread
    /\ field_cache' = t
    /\ pc' = [pc EXCEPT ![t] = "search_cached"]
    /\ UNCHANGED <<writer, committed, searcher, writer_lock, arg, hist>>
    /\ UNCHANGED <<shadowVars, tx, bookmarkVars>>

\* a search that keeps the guard of the field cache and takes the writer
\* lock before it returns: the two locks in the other order
search_return_locking(t) ==
    /\ pc[t] = "search_cached"
    /\ field_cache = t
    /\ writer_lock = NoThread
    /\ field_cache' = NoThread
    /\ pc' = [pc EXCEPT ![t] = "idle"]
    /\ arg' = [arg EXCEPT ![t] = NoArg]
    /\ UNCHANGED <<writer, committed, searcher, writer_lock, hist>>
    /\ UNCHANGED <<shadowVars, tx, bookmarkVars>>

\* get_field_cached returns the handle, its guard is dropped, search() returns
search_return(t) ==
    /\ pc[t] = "search_cached"
    /\ field_cache = t
    /\ field_cache' = NoThread
    /\ pc' = [pc EXCEPT ![t] = "idle"]
    /\ arg' = [arg EXCEPT ![t] = NoArg]
    /\ UNCHANGED <<writer, committed, searcher, writer_lock, hist>>
    /\ UNCHANGED <<shadowVars, tx, bookmarkVars>>

\* generate_highlights(): reader.searcher() is taken, the first
\* get_field_cached is about to run
highlight_call(t, bookmark_id) ==
    /\ pc[t] = "idle"
    /\ pc' = [pc EXCEPT ![t] = "highlight"]
    /\ arg' = [arg EXCEPT ![t] = IdArg(bookmark_id)]
    /\ UNCHANGED <<writer, committed, searcher, writer_lock, hist>>
    /\ UNCHANGED offIndex

\* get_field_cached: self.field_cache.lock()
highlight_get_field_cached(t) ==
    /\ pc[t] = "highlight"
    /\ field_cache = NoThread
    /\ field_cache' = t
    /\ pc' = [pc EXCEPT ![t] = "highlight_cached"]
    /\ UNCHANGED <<writer, committed, searcher, writer_lock, arg, hist>>
    /\ UNCHANGED <<shadowVars, tx, bookmarkVars>>

\* get_field_cached returns the handle, its guard is dropped,
\* generate_highlights() returns
highlight_return(t) ==
    /\ pc[t] = "highlight_cached"
    /\ field_cache = t
    /\ field_cache' = NoThread
    /\ pc' = [pc EXCEPT ![t] = "idle"]
    /\ arg' = [arg EXCEPT ![t] = NoArg]
    /\ UNCHANGED <<writer, committed, searcher, writer_lock, hist>>
    /\ UNCHANGED <<shadowVars, tx, bookmarkVars>>

(***************************************************************************)
(* Segmentation preprocessor (utils/segmenter.rs, default mode).           *)
(***************************************************************************)
RECURSIVE trim_start(_)
trim_start(t) ==
    IF t # <<>> /\ Head(t) \in Whitespace THEN trim_start(Tail(t)) ELSE t

RECURSIVE trim_end(_)
trim_end(t) ==
    IF t # <<>> /\ t[Len(t)] \in Whitespace THEN trim_end(SubSeq(t, 1, Len(t) - 1)) ELSE t

\* str::trim_start in place of str::trim
trim_start_only(t) == trim_start(t)

\* str::trim
trim(t) == trim_end(trim_start(t))

\* prepare_for_search(text: Option<&str>)
prepare_for_search(text) ==
    IF text # None /\ text[1] # <<>> THEN trim(text[1]) ELSE <<>>

\* prepare_tags_for_search(tags: &[String])
prepare_tags_for_search(tag_names) ==
    IF tag_names = <<>> THEN <<>>
    ELSE LET NotBlank(tag) == trim(tag) # <<>>
         IN  join(SelectSeq(tag_names, NotBlank), <<" ">>)

(***************************************************************************)
(* The primary store and its shadow table.  A database value is the record *)
(* of the five tables; a service call is a function from the database at   *)
(* BEGIN to its result and the database at COMMIT (or, on an error or a    *)
(* rollback, the database at BEGIN).                                        *)
(***************************************************************************)
DB == [resources |-> resources, tags |-> tags, resource_tags |-> resource_tags,
       resources_fts |-> resources_fts, next_id |-> next_id]

EmptyTable == [k \in {} |-> 0]

Ok(db, v) == [ok |-> TRUE, db |-> db, value |-> v, error |-> "none"]
Err(db, e) == [ok |-> FALSE, db |-> db, value |-> 0, error |-> e]

\* a table without the row of key k
DeleteRow(table, k) == [j \in DOMAIN table \ {k} |-> table[j]]

RECURSIVE SortedIds(_)
\* the elements of a set of ids in increasing order
SortedIds(ids) ==
    IF ids = {} THEN <<>>
    ELSE LET m == CHOOSE x \in ids : \A y \in ids : x <= y
         IN  <<m>> \o SortedIds(ids \ {m})

\* SELECT t.name FROM tags t JOIN resource_tags rt ON t.id = rt.tag_id
\* WHERE rt.resource_id = $1 AND t.user_id = $2  (rows in tag id order)
TagNames(db, resource_id, user_id) ==
    LET ids == SortedIds({tid \in DOMAIN db.tags :
                            /\ <<resource_id, tid>> \in db.resource_tags
                            /\ db.tags[tid].user_id = user_id})
    IN  [i \in 1..Len(ids) |-> db.tags[ids[i]].name]

\* Option<String>::unwrap_or_default
unwrap_or_default(opt) == IF opt = None THEN <<>> ELSE opt[1]

\* the columns of a row whose tags column is left empty
FtsRowWithoutTags(db, resource_id, user_id) ==
    LET resource == db.resources[resource_id]
    IN  [title |-> prepare_for_search(Some(resource.title)),
         description |-> prepare_for_search(resource.description),
         content |-> prepare_for_search(resource.content),
         tags |-> <<>>,
         url |-> unwrap_or_default(resource.url)]

\* the resources_fts columns index_resource computes for a resources row
FtsRow(db, resource_id, user_id) ==
    LET resource == db.resources[resource_id]
    IN  [title |-> prepare_for_search(Some(resource.title)),
         description |-> prepare_for_search(resource.description),
         content |-> prepare_for_search(resource.content),
         tags |-> prepare_tags_for_search(TagNames(db, resource_id, user_id)),
         url |-> unwrap_or_default(resource.url)]

\* an UPDATE without its WHERE clause
FtsUpdateEveryRow(fts, rowid, row) == [k \in DOMAIN fts |-> row]

\* an UPDATE that appends the new tags to the stored ones
FtsUpdateAppend(fts, rowid, row) ==
    [k \in DOMAIN fts |->
        IF k = rowid THEN [row EXCEPT !.tags = fts[k].tags \o <<" ">> \o @] ELSE fts[k]]

\* UPDATE resources_fts SET ... WHERE rowid = $6
FtsUpdate(fts, rowid, row) ==
    [k \in DOMAIN fts |-> IF k = rowid THEN row ELSE fts[k]]

\* IndexerService::index_resource(tx, resource_id, user_id)
index_resource(db, resource_id, user_id) ==
    IF ~(resource_id \in DOMAIN db.resources
         /\ db.resources[resource_id].user_id = user_id)
    THEN Err(db, "NotFound")
    ELSE LET row == FtsRow(db, resource_id, user_id)
             exists == resource_id \in DOMAIN db.resources_fts
         IN  IF exists
             THEN Ok([db EXCEPT !.resources_fts = FtsUpdate(@, resource_id, row)], 0)
             ELSE Ok([db EXCEPT !.resources_fts = @ @@ (resource_id :> row)], 0)

\* INSERT OR IGNORE INTO tags (user_id, name); SELECT id FROM tags WHERE ...
EnsureTag(db, user_id, tag_name) ==
    IF \E tid \in DOMAIN db.tags :
           db.tags[tid].user_id = user_id /\ db.tags[tid].name = tag_name
    THEN db
    ELSE [db EXCEPT !.tags = @ @@ (db.next_id.tags :> [user_id |-> user_id, name |-> tag_name]),
                    !.next_id.tags = @ + 1]

TagId(db, user_id, tag_name) ==
    CHOOSE tid \in DOMAIN db.tags :
        db.tags[tid].user_id = user_id /\ db.tags[tid].name = tag_name

RECURSIVE AttachTags(_, _, _, _)
\* for tag_name in tags: ensure the tag row, INSERT OR IGNORE INTO resource_tags
AttachTags(db, user_id, resource_id, tag_names) ==
    IF tag_names = <<>> THEN db
    ELSE LET db1 == EnsureTag(db, user_id, Head(tag_names))
             tid == TagId(db1, user_id, Head(tag_names))
             db2 == [db1 EXCEPT !.resource_tags = @ \cup {<<resource_id, tid>>}]
         IN  AttachTags(db2, user_id, resource_id, Tail(tag_names))

\* URL_REGEX ^https?://[^\s/$.?#].[^\s]*$
validate_url(url) ==
    \E scheme \in {<<"h", "t", "t", "p", ":", "/", "/">>,
                    <<"h", "t", "t", "p", "s", ":", "/", "/">>} :
        LET n == Len(scheme)
        IN  /\ Len(url) >= n + 2
            /\ SubSeq(url, 1, n) = scheme
            /\ url[n + 1] \notin Whitespace \cup {"/", "$", ".", "?", "#"}
            /\ \A i \in (n + 3)..Len(url) : url[i] \notin Whitespace

\* ResourceType::from_str accepts these
ResourceTypes == {"link", "note", "snippet", "file"}

\* ResourceService::create_resource(user_id, resource_data)
create_resource(db, user_id, data) ==
    IF data.resource_type \notin ResourceTypes THEN Err(db, "BadRequest")
    ELSE IF data.resource_type = "link"
            /\ (data.url = None \/ ~validate_url(data.url[1])) THEN Err(db, "BadRequest")
    ELSE IF data.resource_type \in {"note", "snippet"} /\ data.content = None
         THEN Err(db, "BadRequest")
    ELSE IF data.resource_type = "file" /\ data.source = None THEN Err(db, "BadRequest")
    ELSE LET id  == db.next_id.resources
             row == [user_id |-> user_id, title |-> data.title, url |-> data.url,
                     description |-> data.description, content |-> data.content]
             db1 == [db EXCEPT !.resources = @ @@ (id :> row),
                               !.next_id.resources = @ + 1]
             db2 == IF data.tags # None
                    THEN AttachTags(db1, user_id, id, data.tags[1]) ELSE db1
             idx == index_resource(db2, id, user_id)
         IN  IF idx.ok THEN Ok(idx.db, id) ELSE Err(db, idx.error)

\* COALESCE($n, column)
Coalesce(opt, old) == IF opt # None THEN opt[1] ELSE old

\* ResourceService::update_resource(user_id, resource_id, update_data);
\* the value is 1 for Some(resource) and 0 for None
update_resource(db, user_id, resource_id, data) ==
    LET has_resource_updates ==
            \/ data.title # None \/ data.url # None
            \/ data.description # None \/ data.content # None
        has_any_updates == has_resource_updates \/ data.tags # None
        found == /\ resource_id \in DOMAIN db.resources
                 /\ db.resources[resource_id].user_id = user_id
    IN  IF data.url # None /\ ~validate_url(data.url[1]) THEN Err(db, "BadRequest")
        ELSE IF ~has_any_updates THEN Err(db, "BadRequest")
        ELSE IF ~found THEN Ok(db, 0)
        ELSE LET old == db.resources[resource_id]
                 new == [old EXCEPT
                           !.title = Coalesce(data.title, @),
                           !.url = IF data.url # None THEN data.url ELSE @,
                           !.description = IF data.description # None
                                           THEN data.description ELSE @,
                           !.content = IF data.content # None THEN data.content ELSE @]
                 db1 == IF has_resource_updates
                        THEN [db EXCEPT !.resources[resource_id] = new] ELSE db
                 db2 == IF data.tags # None
                        THEN AttachTags(
                               [db1 EXCEPT !.resource_tags =
                                   {rt \in @ : rt[1] # resource_id}],
                               user_id, resource_id, data.tags[1])
                        ELSE db1
                 idx == index_resource(db2, resource_id, user_id)
             IN  IF idx.ok THEN Ok(idx.db, 1) ELSE Err(db, idx.error)

\* ResourceService::delete_resource(user_id, resource_id);
\* the value is 1 for was_deleted and 0 otherwise
delete_resource(db, user_id, resource_id) ==
    LET db1 == IF resource_id \in DOMAIN db.resources_fts
               THEN [db EXCEPT !.resources_fts = DeleteRow(@, resource_id)] ELSE db
        was_deleted == /\ resource_id \in DOMAIN db1.resources
                       /\ db1.resources[resource_id].user_id = user_id
        db2 == IF was_deleted
               THEN [db1 EXCEPT !.resources = DeleteRow(@, resource_id),
                                !.resource_tags = {rt \in @ : rt[1] # resource_id}]
               ELSE db1
    IN  Ok(db2, IF was_deleted THEN 1 ELSE 0)

\* a loop that indexes the first record only
IndexFirst(res, ids) ==
    IF ids = <<>> \/ ~res.ok THEN res
    ELSE index_resource(res.db, Head(ids), res.db.resources[Head(ids)].user_id)

RECURSIVE IndexAll(_, _)
\* for (resource_id, resource_user_id) in resource_ids: index_resource(...)?
IndexAll(res, ids) ==
    IF ids = <<>> \/ ~res.ok THEN res
    ELSE IndexAll(index_resource(res.db, Head(ids), res.db.resources[Head(ids)].user_id),
                  Tail(ids))

\* rebuild_index up to its loop: the DELETE on resources_fts and the SELECT
\* of the (id, user_id) pairs to index, in rowid order
rebuild_index_scan(db, user_id) ==
    LET scope == IF user_id # None
                 THEN {id \in DOMAIN db.resources : db.resources[id].user_id = user_id[1]}
                 ELSE DOMAIN db.resources
    IN  [db |-> IF user_id # None
                THEN [db EXCEPT !.resources_fts = [k \in DOMAIN @ \ scope |-> @[k]]]
                ELSE [db EXCEPT !.resources_fts = EmptyTable],
         resource_ids |-> SortedIds(scope)]

\* IndexerService::rebuild_index(user_id: Option<i64>)
rebuild_index(db, user_id) ==
    LET scan == rebuild_index_scan(db, user_id)
        count == Len(scan.resource_ids)
        res == IndexAll(Ok(scan.db, 0), scan.resource_ids)
    IN  IF res.ok THEN Ok(res.db, count) ELSE Err(db, res.error)

(***************************************************************************)
(* Failing statements.  A statement of a service call can fail (an I/O     *)
(* error, a busy or closed connection); the call then returns through `?`, *)
(* and a Transaction that is dropped without commit is rolled back.        *)
(***************************************************************************)
\* the statements of create_resource, and of update_resource, that can fail
CreateStatements == {"insert", "tags", "index_resource", "commit"}
UpdateStatements == {"update", "tags", "index_resource", "commit", "select_tags"}

\* create_resource in which the named statement fails when it is reached
create_resource_failing(db, user_id, data, failed) ==
    LET res == create_resource(db, user_id, data)
    IN  IF ~res.ok THEN res
        ELSE IF failed = "tags" /\ (data.tags = None \/ data.tags[1] = <<>>) THEN res
        ELSE Err(db, "Database")

\* update_resource in which the named statement fails when it is reached;
\* select_tags is the SELECT of the tag names that follows tx.commit()
update_resource_failing(db, user_id, resource_id, data, failed) ==
    LET res == update_resource(db, user_id, resource_id, data)
    IN  IF ~res.ok THEN res
        ELSE IF failed = "update" THEN Err(db, "Database")
        ELSE IF res.value = 0 THEN res
        ELSE IF failed = "tags" /\ data.tags = None THEN res
        ELSE IF failed = "select_tags" THEN Err(res.db, "Database")
        ELSE Err(db, "Database")

(***************************************************************************)
(* SearchService::search_resources on the shadow table.                    *)
(***************************************************************************)
MIN_SEARCH_QUERY_LENGTH == 3

FtsColumns == {"title", "description", "content", "tags", "url"}

\* an FTS5 query string of barewords only: anything else is a syntax error
Fts5Parses(keywords) ==
    /\ \A i \in 1..Len(keywords) :
           IsAlphanumeric(keywords[i]) \/ keywords[i] \in Whitespace
    /\ Tokenize(keywords) # {}

\* resources_fts MATCH keywords: every bareword occurs in some column
\* (tokenize = 'unicode61': split at non-alphanumerics, case folded)
Fts5Match(row, keywords) ==
    \A term \in Tokenize(keywords) :
        \E col \in FtsColumns : term \in Tokenize(row[col])

\* search_resources(user_id, filters) with SearchType::All, no filters and a
\* page that holds every match
search_resources(db, user_id, query) ==
    IF Len(trim(query)) < MIN_SEARCH_QUERY_LENGTH
    THEN [ok |-> FALSE, items |-> {}, total |-> 0, error |-> "BadRequest"]
    ELSE LET search_keywords == prepare_for_search(Some(query))
         IN  IF ~Fts5Parses(search_keywords)
             THEN [ok |-> FALSE, items |-> {}, total |-> 0, error |-> "Database"]
             ELSE LET hits == {id \in DOMAIN db.resources \cap DOMAIN db.resources_fts :
                                  /\ db.resources[id].user_id = user_id
                                  /\ Fts5Match(db.resources_fts[id], search_keywords)}
                  IN  [ok |-> TRUE, items |-> hits, total |-> Cardinality(hits),
                       error |-> "none"]

(***************************************************************************)
(* Highlights.  QueryParser::parse_query splits the text at whitespace; a  *)
(* clause `field:text` names a schema field, any other clause goes to the  *)
(* parser's default fields; the text of a clause is run through the        *)
(* field's tokenizer.                                                      *)
(***************************************************************************)
\* the fields of the schema by the name a query writes
FieldNames ==
    {<<"title", <<"t", "i", "t", "l", "e">>>>,
     <<"url", <<"u", "r", "l">>>>,
     <<"description", <<"d", "e", "s", "c", "r", "i", "p", "t", "i", "o", "n">>>>,
     <<"tags", <<"t", "a", "g", "s">>>>}

RECURSIVE Clauses(_, _, _)
\* the whitespace-separated clauses of a query
Clauses(text, i, cur) ==
    LET flush == IF cur = <<>> THEN <<>> ELSE <<cur>>
    IN  IF i > Len(text) THEN flush
        ELSE IF text[i] \in Whitespace THEN flush \o Clauses(text, i + 1, <<>>)
        ELSE Clauses(text, i + 1, Append(cur, text[i]))

\* one clause: Err for a field the schema does not have or a field without
\* text, else the <<field, term>> pairs it asks for
ParseClause(clause, default_fields) ==
    IF \E k \in 1..Len(clause) : clause[k] = ":"
    THEN LET k == CHOOSE j \in 1..Len(clause) :
                      clause[j] = ":" /\ \A h \in 1..(j - 1) : clause[h] # ":"
             name == SubSeq(clause, 1, k - 1)
             text == SubSeq(clause, k + 1, Len(clause))
             named == {f \in FieldNames : f[2] = name}
         IN  IF named = {} \/ text = <<>> THEN [ok |-> FALSE, terms |-> {}]
             ELSE [ok |-> TRUE,
                   terms |-> {<<f[1], term>> : f \in named, term \in Tokenize(text)}]
    ELSE [ok |-> TRUE, terms |-> default_fields \X Tokenize(clause)]

\* QueryParser::for_index(index, default_fields).parse_query(query_str)
parse_query(query_str, default_fields) ==
    LET clauses == Clauses(query_str, 1, <<>>)
        parsed == [i \in 1..Len(clauses) |-> ParseClause(clauses[i], default_fields)]
    IN  [ok |-> \A i \in 1..Len(clauses) : parsed[i].ok,
         terms |-> UNION {parsed[i].terms : i \in 1..Len(clauses)}]

RECURSIVE to_html(_, _, _, _)
\* Snippet::to_html: the stored text with every matched word in <b> </b>
to_html(text, i, cur, matched) ==
    LET flush == IF cur = <<>> THEN <<>>
                 ELSE IF LowerText(cur) \in matched THEN <<"<b>">> \o cur \o <<"</b>">>
                 ELSE cur
    IN  IF i > Len(text) THEN flush
        ELSE IF IsAlphanumeric(text[i]) THEN to_html(text, i + 1, Append(cur, text[i]), matched)
        ELSE flush \o <<text[i]>> \o to_html(text, i + 1, <<>>, matched)

\* SnippetGenerator::create(searcher, field_query, field) and snippet_from_doc:
\* the words of the stored field that are terms of the query on that field
SnippetTerms(doc, field, terms) ==
    {term \in FieldTerms(doc, field) : <<field, term>> \in terms}

\* the fields generate_highlights makes a snippet for
HighlightFields == {"title", "description"}

\* where generate_highlights can fail besides the parse of the query: in
\* the search for the document, or for one field in SnippetGenerator::create
HighlightSteps == {"none", "search"} \cup HighlightFields

\* the document TopDocs::with_limit(1) returns for Must id, Should query
HighlightDoc(snapshot, bookmark_id, terms) ==
    LET docs == DocsOf(snapshot, bookmark_id)
        Hit(a) == Cardinality({p \in terms : p[2] \in FieldTerms(snapshot[a], p[1])})
    IN  CHOOSE a \in docs : \A o \in docs : Hit(a) > Hit(o) \/ (Hit(a) = Hit(o) /\ a <= o)

\* generate_highlights that takes a document without a snippet for an error
generate_highlights_or_fail(snapshot, bookmark_id, query_str, failed) ==
    LET parsed == parse_query(query_str, {"title", "description", "tags"})
        Failure == [ok |-> FALSE, highlights |-> EmptyTable]
    IN  IF ~parsed.ok \/ failed = "search" THEN Failure
        ELSE IF DocsOf(snapshot, bookmark_id) = {} THEN [ok |-> TRUE, highlights |-> EmptyTable]
        ELSE IF failed \in HighlightFields THEN Failure
        ELSE LET doc == snapshot[HighlightDoc(snapshot, bookmark_id, parsed.terms)]
                 Terms(field) ==
                     SnippetTerms(doc, field, parse_query(query_str, {field}).terms)
                 Stored(field) == IF field = "title" THEN doc.title
                                  ELSE unwrap_or_default(doc.description)
             IN  IF \A f \in HighlightFields : Terms(f) = {} THEN Failure
                 ELSE [ok |-> TRUE,
                       highlights |->
                           [field \in {f \in HighlightFields : Terms(f) # {}} |->
                               <<to_html(Stored(field), 1, <<>>, Terms(field))>>]]

\* TantivyIndexManager::generate_highlights(bookmark_id, query_str)
generate_highlights(snapshot, bookmark_id, query_str, failed) ==
    LET parsed == parse_query(query_str, {"title", "description", "tags"})
        Failure == [ok |-> FALSE, highlights |-> EmptyTable]
    IN  IF ~parsed.ok \/ failed = "search" THEN Failure
        ELSE IF DocsOf(snapshot, bookmark_id) = {} THEN [ok |-> TRUE, highlights |-> EmptyTable]
        ELSE IF failed \in HighlightFields THEN Failure
        ELSE LET doc == snapshot[HighlightDoc(snapshot, bookmark_id, parsed.terms)]
                 Terms(field) ==
                     SnippetTerms(doc, field, parse_query(query_str, {field}).terms)
                 Stored(field) == IF field = "title" THEN doc.title
                                  ELSE unwrap_or_default(doc.description)
             IN  [ok |-> TRUE,
                  highlights |->
                      [field \in {f \in HighlightFields : Terms(f) # {}} |->
                          <<to_html(Stored(field), 1, <<>>, Terms(field))>>]]

\* TantivySearchService::generate_highlights(bookmark_id, query, index_manager)
service_generate_highlights(snapshot, bookmark_id, query, failed) ==
    LET res == generate_highlights(snapshot, bookmark_id, query, failed)
    IN  IF res.ok THEN res.highlights ELSE EmptyTable

\* TantivySearchService::tantivy_search when index_manager.search returns
\* an error: map_err(AppError::Internal)
tantivy_search_result(snapshot, search_type, query, user_id, limit, offset, failed) ==
    IF failed THEN [ok |-> FALSE, error |-> "Internal", results |-> <<>>, total |-> 0]
    ELSE LET resp == tantivy_search(snapshot, search_type, query, user_id, limit, offset)
         IN  [ok |-> TRUE, error |-> "none", results |-> resp.results, total |-> resp.total]

(***************************************************************************)
(* Requests to the ResourceService / IndexerService.                       *)
(***************************************************************************)
T_sp_RustGo == <<" ", "R", "u", "s", "t", " ", "G", "o">>
T_no_scheme == <<"r", ".", "i", "o">>

\* the create requests: who sends which CreateResource body (a link with
\* tags, a note with a two-letter title, a link whose url has no scheme)
CreateRequests ==
    { [user_id |-> 1,
       data |-> [resource_type |-> "link", title |-> T_sp_RustGo, url |-> Some(T_url_r),
                 description |-> Some(T_fast), content |-> None, source |-> None,
                 tags |-> Some(<<T_rust>>)]],
      [user_id |-> 2,
       data |-> [resource_type |-> "note", title |-> T_go, url |-> None,
                 description |-> None, content |-> Some(T_Java), source |-> None,
                 tags |-> None]],
      [user_id |-> 2,
       data |-> [resource_type |-> "link", title |-> T_Java, url |-> Some(T_no_scheme),
                 description |-> None, content |-> None, source |-> None,
                 tags |-> None]] }

UpdateInputs ==
    { [title |-> Some(T_Ruby), url |-> None, description |-> None,
       content |-> None, tags |-> None],
      [title |-> None, url |-> None, description |-> None,
       content |-> None, tags |-> Some(<<T_jvm, T_rust>>)],
      [title |-> None, url |-> None, description |-> None,
       content |-> None, tags |-> None] }

ResourceIds == 1..MaxResources

\* the tables after a call, and what the call returned
Commit(op, res, all) ==
    /\ resources' = res.db.resources
    /\ tags' = res.db.tags
    /\ resource_tags' = res.db.resource_tags
    /\ resources_fts' = res.db.resources_fts
    /\ next_id' = res.db.next_id
    /\ reply' = [op |-> op, ok |-> res.ok, value |-> res.value, all |-> all,
                 was_empty |-> all /\ DOMAIN resources_fts = {}]
    /\ UNCHANGED <<field_cache, bookmarkVars>>

CreateResource(user_id, data) ==
    /\ next_id.resources <= MaxResources
    /\ Commit("create_resource", create_resource(DB, user_id, data), FALSE)
    /\ UNCHANGED <<indexVars, tx>>

UpdateResource(user_id, resource_id, data) ==
    /\ Commit("update_resource", update_resource(DB, user_id, resource_id, data), FALSE)
    /\ UNCHANGED <<indexVars, tx>>

DeleteResource(user_id, resource_id) ==
    /\ Commit("delete_resource", delete_resource(DB, user_id, resource_id), FALSE)
    /\ UNCHANGED <<indexVars, tx>>

\* a transaction that calls index_resource and commits
IndexResource(user_id, resource_id) ==
    /\ Commit("index_resource", index_resource(DB, resource_id, user_id), FALSE)
    /\ UNCHANGED <<indexVars, tx>>

RebuildIndex(user_id) ==
    /\ Commit("rebuild_index", rebuild_index(DB, user_id), user_id = None)
    /\ UNCHANGED <<indexVars, tx>>

CreateResourceFailing(user_id, data, failed) ==
    /\ next_id.resources <= MaxResources
    /\ Commit("create_resource", create_resource_failing(DB, user_id, data, failed), FALSE)
    /\ UNCHANGED <<indexVars, tx>>

UpdateResourceFailing(user_id, resource_id, data, failed) ==
    /\ Commit("update_resource",
              update_resource_failing(DB, user_id, resource_id, data, failed), FALSE)
    /\ UNCHANGED <<indexVars, tx>>

\* rebuild_index: db_pool.begin(), the DELETE and the SELECT
BeginRebuild(user_id) ==
    /\ tx = None
    /\ LET scan == rebuild_index_scan(DB, user_id)
       IN  tx' = Some([user_id |-> user_id, db |-> scan.db, todo |-> scan.resource_ids,
                       done |-> <<>>])
    /\ UNCHANGED <<indexVars, shadowVars, field_cache, bookmarkVars>>

\* rebuild_index: one turn of the loop, index_resource(&mut tx, ..)?; when
\* it fails the function returns and the transaction is dropped
RebuildStep(failed) ==
    /\ tx # None
    /\ tx[1].todo # <<>>
    /\ LET t == tx[1]
           id == Head(t.todo)
           res == IF failed THEN Err(t.db, "Database")
                  ELSE index_resource(t.db, id, t.db.resources[id].user_id)
       IN  IF res.ok
           THEN /\ tx' = Some([t EXCEPT !.db = res.db, !.todo = Tail(@),
                                        !.done = Append(@, id)])
                /\ UNCHANGED reply
           ELSE /\ tx' = None
                /\ reply' = [op |-> "rebuild_index", ok |-> FALSE, value |-> id,
                             all |-> t.user_id = None, was_empty |-> FALSE]
    /\ UNCHANGED <<resources, tags, resource_tags, resources_fts, next_id>>
    /\ UNCHANGED <<indexVars, field_cache, bookmarkVars>>

\* rebuild_index: tx.commit() after the loop, Ok(count)
RebuildCommit ==
    /\ tx # None
    /\ tx[1].todo = <<>>
    /\ Commit("rebuild_index", Ok(tx[1].db, Len(tx[1].done)), tx[1].user_id = None)
    /\ tx' = None
    /\ UNCHANGED indexVars

\* the process stops during the scan: the open transaction is rolled back
RebuildStop ==
    /\ tx # None
    /\ tx' = None
    /\ reply' = [op |-> "rebuild_index_stopped", ok |-> FALSE, value |-> Len(tx[1].done),
                 all |-> tx[1].user_id = None, was_empty |-> FALSE]
    /\ UNCHANGED <<resources, tags, resource_tags, resources_fts, next_id>>
    /\ UNCHANGED <<indexVars, field_cache, bookmarkVars>>

(***************************************************************************)
(* BookmarkService.  Table bookmarks holds, with each row, the names of    *)
(* the tags bookmark_tags gives it, in name order.  A call is made by one  *)
(* caller and runs to its return: the transaction on the primary store,    *)
(* then, when an index manager is passed, the calls on it.                 *)
(***************************************************************************)
\* where a call can fail: nowhere, in a statement of its transaction, in
\* get_bookmark_with_tags_for_index, in add/update/delete_bookmark of the
\* index manager, or in its commit
BookmarkSteps == {"none", "statement", "load", "index", "commit"}

\* the CreateBookmark bodies: who sends which (the last url has no scheme)
CreateBookmarks ==
    { [user_id |-> 1, title |-> T_RustGo, url |-> T_url_r,
       description |-> Some(T_fast), tags |-> Some(<<T_rust>>)],
      [user_id |-> 2, title |-> T_Java, url |-> T_url_j,
       description |-> None, tags |-> Some(<<T_fast, T_jvm>>)],
      [user_id |-> 2, title |-> T_go, url |-> T_no_scheme,
       description |-> None, tags |-> None] }

\* the UpdateBookmark bodies: a new title, only new tags, a url without scheme
UpdateBookmarks ==
    { [title |-> Some(T_Ruby), url |-> None, description |-> None, tags |-> None],
      [title |-> None, url |-> None, description |-> None, tags |-> Some(<<T_jvm>>)],
      [title |-> None, url |-> Some(T_no_scheme), description |-> None, tags |-> None] }

BookmarkReply(op, ok, value) ==
    [op |-> op, ok |-> ok, value |-> value, all |-> FALSE, was_empty |-> FALSE]

\* SELECT ... FROM bookmarks WHERE id = $1 AND user_id = $2, with its tags
get_bookmark_with_tags_for_index(table, user_id, bookmark_id) ==
    LET row == table[bookmark_id]
    IN  [id |-> bookmark_id, user_id |-> row.user_id, title |-> row.title,
         url |-> row.url, description |-> row.description, tags |-> row.tags]

\* the index after `if let Err(e) = index_manager.<call> { log } else if
\* let Err(e) = index_manager.commit() { log }`, docs being the writer
\* after a successful call
SyncIndex(index_manager, failed, docs) ==
    /\ writer' = IF index_manager /\ failed \notin {"load", "index"} THEN docs ELSE writer
    /\ committed' = IF index_manager /\ failed \notin {"load", "index", "commit"}
                    THEN docs ELSE committed

\* what a BookmarkService call leaves as it is
offBookmarks == <<searcher, writer_lock, pc, arg, hist, resources, tags, resource_tags,
                  resources_fts, field_cache, tx, bookmarks_fts, startup, rebuild>>

\* BookmarkService::create_bookmark(user_id, bookmark_data, db_pool, index_manager)
CreateBookmark(data, index_manager, failed) ==
    /\ next_id.bookmarks <= MaxDocs
    /\ Len(writer) < MaxDocs
    /\ IF ~validate_url(data.url) \/ failed = "statement"
       THEN /\ reply' = BookmarkReply("create_bookmark", FALSE, 0)
            /\ UNCHANGED <<bookmarks, next_id, writer, committed>>
       ELSE LET id == next_id.bookmarks
                row == [user_id |-> data.user_id, title |-> data.title, url |-> data.url,
                        description |-> data.description,
                        tags |-> IF data.tags # None THEN data.tags[1] ELSE <<>>]
                table == bookmarks @@ (id :> row)
                b == get_bookmark_with_tags_for_index(table, data.user_id, id)
            IN  /\ bookmarks' = table
                /\ next_id' = [next_id EXCEPT !.bookmarks = @ + 1]
                /\ SyncIndex(index_manager, failed, Append(writer, MakeDocument(b)))
                /\ reply' = BookmarkReply("create_bookmark",
                                          ~(index_manager /\ failed = "load"), id)
    /\ UNCHANGED offBookmarks

\* BookmarkService::update_bookmark(user_id, bookmark_id, update_data, db_pool,
\* index_manager)
UpdateBookmark(user_id, bookmark_id, data, index_manager, failed) ==
    /\ Len(DeleteById(writer, bookmark_id)) < MaxDocs
    /\ IF \/ data.url # None /\ ~validate_url(data.url[1])
          \/ data.title = None /\ data.url = None /\ data.description = None
          \/ failed = "statement"
       THEN /\ reply' = BookmarkReply("update_bookmark", FALSE, 0)
            /\ UNCHANGED <<bookmarks, writer, committed>>
       ELSE IF bookmark_id \notin DOMAIN bookmarks \/ bookmarks[bookmark_id].user_id # user_id
       THEN /\ reply' = BookmarkReply("update_bookmark", TRUE, 0)
            /\ UNCHANGED <<bookmarks, writer, committed>>
       ELSE LET old == bookmarks[bookmark_id]
                row == [user_id |-> old.user_id,
                        title |-> Coalesce(data.title, old.title),
                        url |-> Coalesce(data.url, old.url),
                        description |-> IF data.description # None THEN data.description
                                        ELSE old.description,
                        tags |-> Coalesce(data.tags, old.tags)]
                table == [bookmarks EXCEPT ![bookmark_id] = row]
                b == get_bookmark_with_tags_for_index(table, user_id, bookmark_id)
            IN  /\ bookmarks' = table
                /\ SyncIndex(index_manager, failed,
                             Append(DeleteById(writer, bookmark_id), MakeDocument(b)))
                /\ reply' = BookmarkReply("update_bookmark",
                                          ~(index_manager /\ failed = "load"), bookmark_id)
    /\ UNCHANGED <<next_id, offBookmarks>>

\* BookmarkService::delete_bookmark(user_id, bookmark_id, db_pool, index_manager)
DeleteBookmark(user_id, bookmark_id, index_manager, failed) ==
    /\ IF failed = "statement"
       THEN /\ reply' = BookmarkReply("delete_bookmark", FALSE, 0)
            /\ UNCHANGED <<bookmarks, writer, committed>>
       ELSE LET was_deleted == /\ bookmark_id \in DOMAIN bookmarks
                               /\ bookmarks[bookmark_id].user_id = user_id
            IN  /\ bookmarks' = IF was_deleted THEN DeleteRow(bookmarks, bookmark_id)
                                ELSE bookmarks
                /\ SyncIndex(index_manager /\ was_deleted,
                             IF failed = "load" THEN "none" ELSE failed,
                             DeleteById(writer, bookmark_id))
                /\ reply' = BookmarkReply("delete_bookmark", TRUE,
                                          IF was_deleted THEN 1 ELSE 0)
    /\ UNCHANGED <<next_id, offBookmarks>>

(***************************************************************************)
(* Maintenance service: the check at process start and the background task *)
(* that rebuilds table bookmarks_fts.  Every statement of the task runs on *)
(* the pool, in its own implicit transaction.                              *)
(***************************************************************************)
RECURSIVE cut(_, _, _)
\* Jieba::cut(text, false) on text without Han characters: the runs of
\* alphanumeric characters, and every other character by itself
cut(text, i, cur) ==
    LET flush == IF cur = <<>> THEN <<>> ELSE <<cur>>
    IN  IF i > Len(text) THEN flush
        ELSE IF IsAlphanumeric(text[i]) THEN cut(text, i + 1, Append(cur, text[i]))
        ELSE flush \o <<<<text[i]>>>> \o cut(text, i + 1, <<>>)

\* jieba.cut(text, false).join(" ")
keywords(text) == join(cut(text, 1, <<>>), <<" ">>)

\* the bookmarks_fts row rebuild_fts_index inserts for a row of its SELECT
\* (tags: GROUP_CONCAT(t.name, ',') split at ',' again, each name cut)
BookmarkFtsRow(row) ==
    [title |-> keywords(row.title),
     description |-> IF row.description # None THEN keywords(row.description[1]) ELSE <<>>,
     tags |-> join([i \in 1..Len(row.tags) |-> keywords(row.tags[i])], <<" ">>),
     url |-> row.url]

\* what the maintenance service leaves as it is
offMaintenance == <<indexVars, shadowVars, field_cache, tx, bookmarks>>

\* the process starts and calls check_and_rebuild_fts(pool)
Start ==
    /\ startup = "down"
    /\ startup' = "checking"
    /\ UNCHANGED <<offMaintenance, bookmarks_fts, rebuild>>

\* check_and_rebuild_fts that awaits rebuild_fts_index(pool) where the code
\* spawns it: it returns when the rebuild has ended
check_and_rebuild_fts_awaiting(failed) ==
    /\ startup = "checking"
    /\ IF rebuild.pc = "none"
       THEN IF failed THEN startup' = "returned_err" /\ UNCHANGED rebuild
            ELSE IF DOMAIN bookmarks = {} THEN startup' = "returned_ok" /\ UNCHANGED rebuild
            ELSE /\ rebuild' = [pc |-> "spawned", rows |-> <<>>, count |-> 0]
                 /\ UNCHANGED startup
       ELSE /\ rebuild.pc \in {"done", "failed"}
            /\ startup' = IF rebuild.pc = "done" THEN "returned_ok" ELSE "returned_err"
            /\ UNCHANGED rebuild
    /\ UNCHANGED <<offMaintenance, bookmarks_fts>>

\* check_and_rebuild_fts: SELECT COUNT(*) FROM bookmarks; with no row
\* Ok(()), else tokio::spawn(rebuild_fts_index(pool)) and Ok(())
check_and_rebuild_fts(failed) ==
    /\ startup = "checking"
    /\ IF failed THEN startup' = "returned_err" /\ UNCHANGED rebuild
       ELSE IF DOMAIN bookmarks = {} THEN startup' = "returned_ok" /\ UNCHANGED rebuild
       ELSE /\ rebuild' = [pc |-> "spawned", rows |-> <<>>, count |-> 0]
            /\ startup' = "returned_ok"
    /\ UNCHANGED <<offMaintenance, bookmarks_fts>>

\* rebuild_fts_index: DELETE FROM bookmarks_fts
rebuild_fts_delete(failed) ==
    /\ rebuild.pc = "spawned"
    /\ IF failed THEN rebuild' = [rebuild EXCEPT !.pc = "failed"] /\ UNCHANGED bookmarks_fts
       ELSE /\ bookmarks_fts' = EmptyTable
            /\ rebuild' = [rebuild EXCEPT !.pc = "selecting"]
    /\ UNCHANGED <<offMaintenance, startup>>

\* rebuild_fts_index: SELECT b.id, b.title, b.description, b.url, tags FROM bookmarks b
rebuild_fts_select(failed) ==
    /\ rebuild.pc = "selecting"
    /\ rebuild' = IF failed THEN [rebuild EXCEPT !.pc = "failed"]
                  ELSE LET ids == SortedIds(DOMAIN bookmarks)
                       IN  [rebuild EXCEPT !.pc = "inserting",
                                           !.rows = [i \in 1..Len(ids) |->
                                                        [id |-> ids[i], row |-> bookmarks[ids[i]]]]]
    /\ UNCHANGED <<offMaintenance, startup, bookmarks_fts>>

\* rebuild_fts_index: one turn of the loop, INSERT INTO bookmarks_fts (..)?
rebuild_fts_insert(failed) ==
    /\ rebuild.pc = "inserting"
    /\ rebuild.rows # <<>>
    /\ IF failed THEN rebuild' = [rebuild EXCEPT !.pc = "failed"] /\ UNCHANGED bookmarks_fts
       ELSE LET r == Head(rebuild.rows)
            IN  /\ bookmarks_fts' = bookmarks_fts @@ (r.id :> BookmarkFtsRow(r.row))
                /\ rebuild' = [rebuild EXCEPT !.rows = Tail(@), !.count = @ + 1]
    /\ UNCHANGED <<offMaintenance, startup>>

\* rebuild_fts_index: the loop is over, Ok(())
rebuild_fts_finish ==
    /\ rebuild.pc = "inserting"
    /\ rebuild.rows = <<>>
    /\ rebuild' = [rebuild EXCEPT !.pc = "done"]
    /\ UNCHANGED <<offMaintenance, startup, bookmarks_fts>>

\* the process exits, and its background task with it
Stop ==
    /\ startup \in {"returned_ok", "returned_err"}
    /\ startup' = "down"
    /\ rebuild' = NoTask
    /\ UNCHANGED <<offMaintenance, bookmarks_fts>>

(***************************************************************************)
(* TagService::update_tag.  A call that gives a new name runs UPDATE tags, *)
(* reads the ids bookmark_tags links to the tag and re-indexes each of     *)
(* them before it commits.  The rows of bookmark_tags are the tag names a  *)
(* bookmarks row carries; resource_tags is not read.                       *)
(***************************************************************************)
T_color == <<"#">>

\* the UpdateTag bodies: a new name, another name with a colour, a colour
\* only, no field
UpdateTags ==
    { [name |-> Some(T_jvm), color |-> None, description |-> None],
      [name |-> Some(T_rust), color |-> Some(T_color), description |-> None],
      [name |-> None, color |-> Some(T_color), description |-> None],
      [name |-> None, color |-> None, description |-> None] }

\* the tables update_tag reads and writes
TagDB == [tags |-> tags, bookmarks |-> bookmarks, bookmarks_fts |-> bookmarks_fts]

\* SELECT bookmark_id FROM bookmark_tags WHERE tag_id = $1
BookmarkIdsOfTag(db, tag) ==
    SortedIds({id \in DOMAIN db.bookmarks :
                 /\ db.bookmarks[id].user_id = tag.user_id
                 /\ \E i \in 1..Len(db.bookmarks[id].tags) :
                        db.bookmarks[id].tags[i] = tag.name})

\* the tag names bookmark_tags joins to a bookmark after UPDATE tags SET name
RenamedTags(tag_names, old, new) ==
    [i \in 1..Len(tag_names) |-> IF tag_names[i] = old THEN new ELSE tag_names[i]]

\* IndexerService::index_bookmark(tx, bookmark_id, user_id): the shadow row
\* of the record is written from its current fields and tag names
index_bookmark(db, bookmark_id, user_id) ==
    IF ~(bookmark_id \in DOMAIN db.bookmarks
         /\ db.bookmarks[bookmark_id].user_id = user_id)
    THEN Err(db, "NotFound")
    ELSE LET b   == db.bookmarks[bookmark_id]
             row == [title |-> prepare_for_search(Some(b.title)),
                     description |-> prepare_for_search(b.description),
                     tags |-> prepare_tags_for_search(b.tags),
                     url |-> b.url]
         IN  IF bookmark_id \in DOMAIN db.bookmarks_fts
             THEN Ok([db EXCEPT !.bookmarks_fts[bookmark_id] = row], 0)
             ELSE Ok([db EXCEPT !.bookmarks_fts = @ @@ (bookmark_id :> row)], 0)

RECURSIVE IndexBookmarks(_, _, _)
\* for row in bookmark_ids { IndexerService::index_bookmark(..).await?; }
IndexBookmarks(res, ids, user_id) ==
    IF ids = <<>> \/ ~res.ok THEN res
    ELSE IndexBookmarks(index_bookmark(res.db, Head(ids), user_id), Tail(ids), user_id)

\* TagService::update_tag(user_id, tag_id, update_data); the value is 1 for
\* Some(tag) and 0 for None
update_tag(db, user_id, tag_id, update_data) ==
    IF update_data.name = None /\ update_data.color = None
       /\ update_data.description = None
    THEN Err(db, "BadRequest")
    ELSE IF ~(tag_id \in DOMAIN db.tags /\ db.tags[tag_id].user_id = user_id)
    THEN Ok(db, 0)
    ELSE LET old   == db.tags[tag_id]
             name  == Coalesce(update_data.name, old.name)
             taken == \E o \in DOMAIN db.tags \ {tag_id} :
                          db.tags[o].user_id = user_id /\ db.tags[o].name = name
             ids   == BookmarkIdsOfTag(db, old)
             db1   == [db EXCEPT
                         !.tags[tag_id].name = name,
                         !.bookmarks = [id \in DOMAIN db.bookmarks |->
                             IF \E i \in 1..Len(ids) : ids[i] = id
                             THEN [db.bookmarks[id] EXCEPT
                                     !.tags = RenamedTags(@, old.name, name)]
                             ELSE db.bookmarks[id]]]
             res   == IF update_data.name # None
                      THEN IndexBookmarks(Ok(db1, 0), ids, user_id) ELSE Ok(db1, 0)
         IN  IF taken THEN Err(db, "Database")
             ELSE IF res.ok THEN Ok(res.db, 1) ELSE Err(db, res.error)

\* the tables after a call of the tag service, and what the call returned
TagCommit(res) ==
    /\ tags' = res.db.tags
    /\ bookmarks' = res.db.bookmarks
    /\ bookmarks_fts' = res.db.bookmarks_fts
    /\ reply' = BookmarkReply("update_tag", res.ok, res.value)

UpdateTag(user_id, tag_id, update_data) ==
    /\ TagCommit(update_tag(TagDB, user_id, tag_id, update_data))
    /\ UNCHANGED <<indexVars, resources, resource_tags, resources_fts, next_id,
                   field_cache, tx, startup, rebuild>>

(***************************************************************************)
(* ResourceService::batch_process and TagService::delete_tag.  A batch     *)
(* runs one call per resource id, each in a transaction of its own, and    *)
(* counts the calls that returned Ok(true).                                *)
(***************************************************************************)
\* ResourceService::add_tags(user_id, resource_id, tags); resource_tags
\* references resources(id)
add_tags(db, user_id, resource_id, tag_names) ==
    IF resource_id \notin DOMAIN db.resources THEN Err(db, "Database")
    ELSE Ok(AttachTags(db, user_id, resource_id, tag_names), 1)

\* ResourceService::remove_tags(user_id, resource_id, tags)
remove_tags(db, user_id, resource_id, tag_names) ==
    LET gone == {rt \in db.resource_tags :
                    /\ rt[1] = resource_id
                    /\ db.tags[rt[2]].user_id = user_id
                    /\ \E i \in 1..Len(tag_names) : db.tags[rt[2]].name = tag_names[i]}
    IN  Ok([db EXCEPT !.resource_tags = @ \ gone], IF gone # {} THEN 1 ELSE 0)

\* the call batch_process makes for one resource id
batch_operation(db, user_id, action, resource_id, tag_names) ==
    CASE action = "delete" -> delete_resource(db, user_id, resource_id)
      [] action = "add_tags" -> add_tags(db, user_id, resource_id, tag_names)
      [] action = "remove_tags" -> remove_tags(db, user_id, resource_id, tag_names)

RECURSIVE batch_loop(_, _, _, _, _)
\* for resource_id in resource_ids: the value counts result.processed
batch_loop(res, user_id, action, resource_ids, tag_names) ==
    IF resource_ids = <<>> THEN res
    ELSE LET one == batch_operation(res.db, user_id, action, Head(resource_ids), tag_names)
         IN  batch_loop(Ok(one.db, res.value + (IF one.ok THEN one.value ELSE 0)),
                        user_id, action, Tail(resource_ids), tag_names)

\* ResourceService::batch_process(user_id, request)
batch_process(db, user_id, request) ==
    IF /\ request.action \in {"add_tags", "remove_tags"}
       /\ request.resource_ids # <<>>
       /\ (request.tags = None \/ request.tags[1] = <<>>)
    THEN Err(db, "BadRequest")
    ELSE batch_loop(Ok(db, 0), user_id, request.action, request.resource_ids,
                    unwrap_or_default(request.tags))

\* TagService::delete_tag(user_id, tag_id); resource_tags references
\* tags(id) ON DELETE CASCADE
delete_tag(db, user_id, tag_id) ==
    IF tag_id \in DOMAIN db.tags /\ db.tags[tag_id].user_id = user_id
    THEN Ok([db EXCEPT !.tags = DeleteRow(@, tag_id),
                       !.resource_tags = {rt \in @ : rt[2] # tag_id}], 1)
    ELSE Ok(db, 0)

\* the batch requests: a tag more for two resources, a tag less for one, a
\* request without tags, a delete of two resources
BatchRequests ==
    { [action |-> "add_tags", resource_ids |-> <<1, 2>>, tags |-> Some(<<T_jvm>>)],
      [action |-> "remove_tags", resource_ids |-> <<1>>, tags |-> Some(<<T_rust>>)],
      [action |-> "add_tags", resource_ids |-> <<1>>, tags |-> None],
      [action |-> "delete", resource_ids |-> <<2, 1>>, tags |-> None] }

\* the tag ids a run hands out
MaxTags == MaxResources + 1

BatchProcess(user_id, request) ==
    /\ next_id.tags <= MaxTags
    /\ Commit(request.action, batch_process(DB, user_id, request), FALSE)
    /\ UNCHANGED <<indexVars, tx>>

DeleteTag(user_id, tag_id) ==
    /\ Commit("delete_tag", delete_tag(DB, user_id, tag_id), FALSE)
    /\ UNCHANGED <<indexVars, tx>>

(***************************************************************************)
(* BookmarkService::batch_process with action Delete: one delete_bookmark  *)
(* call per bookmark id, each given None as its index manager.             *)
(***************************************************************************)
\* the lists of bookmark ids a batch names
BatchBookmarkIds == {<<1>>, <<2, 1>>}

\* the value is result.processed
BookmarkBatchDelete(user_id, bookmark_ids) ==
    LET was_deleted == {id \in Range(bookmark_ids) :
                           id \in DOMAIN bookmarks /\ bookmarks[id].user_id = user_id}
    IN  /\ bookmarks' = [id \in DOMAIN bookmarks \ was_deleted |-> bookmarks[id]]
        /\ reply' = BookmarkReply("batch_delete", TRUE, Cardinality(was_deleted))
        /\ UNCHANGED <<writer, committed, next_id, offBookmarks>>

(***************************************************************************)
(* BookmarkService under concurrent requests.  A call is an async fn: the  *)
(* other caller runs while it awaits, so its transaction, the load of the  *)
(* row for the index, the call on the index manager and the commit of the  *)
(* index are steps of their own.                                           *)
(***************************************************************************)
\* what a step of such a call leaves as it is
offRace == <<searcher, writer_lock, hist, resources, tags, resource_tags,
             resources_fts, field_cache, tx, bookmarks_fts, startup, rebuild>>

\* the call of caller t returns
RaceReturn(t, op, ok, value) ==
    /\ pc' = [pc EXCEPT ![t] = "idle"]
    /\ arg' = [arg EXCEPT ![t] = NoArg]
    /\ reply' = BookmarkReply(op, ok, value)

\* the call of caller t goes on with its next step
RaceStep(t, next_pc, a) ==
    /\ pc' = [pc EXCEPT ![t] = next_pc]
    /\ arg' = [arg EXCEPT ![t] = a]
    /\ UNCHANGED reply

\* create_bookmark up to tx.commit()
create_bookmark_tx(t, data) ==
    /\ pc[t] = "idle"
    /\ next_id.bookmarks <= MaxDocs
    /\ IF ~validate_url(data.url)
       THEN /\ RaceReturn(t, "create_bookmark", FALSE, 0)
            /\ UNCHANGED <<bookmarks, next_id>>
       ELSE LET id == next_id.bookmarks
                row == [user_id |-> data.user_id, title |-> data.title, url |-> data.url,
                        description |-> data.description,
                        tags |-> IF data.tags # None THEN data.tags[1] ELSE <<>>]
            IN  /\ bookmarks' = bookmarks @@ (id :> row)
                /\ next_id' = [next_id EXCEPT !.bookmarks = @ + 1]
                /\ RaceStep(t, "create_load", [id |-> id, user_id |-> data.user_id, b |-> None])
    /\ UNCHANGED <<writer, committed, offRace>>

\* update_bookmark up to tx.commit()
update_bookmark_tx(t, user_id, bookmark_id, data) ==
    /\ pc[t] = "idle"
    /\ IF \/ data.url # None /\ ~validate_url(data.url[1])
          \/ data.title = None /\ data.url = None /\ data.description = None
       THEN /\ RaceReturn(t, "update_bookmark", FALSE, 0)
            /\ UNCHANGED bookmarks
       ELSE IF bookmark_id \notin DOMAIN bookmarks \/ bookmarks[bookmark_id].user_id # user_id
       THEN /\ RaceReturn(t, "update_bookmark", TRUE, 0)
            /\ UNCHANGED bookmarks
       ELSE LET old == bookmarks[bookmark_id]
                row == [user_id |-> old.user_id,
                        title |-> Coalesce(data.title, old.title),
                        url |-> Coalesce(data.url, old.url),
                        description |-> IF data.description # None THEN data.description
                                        ELSE old.description,
                        tags |-> Coalesce(data.tags, old.tags)]
            IN  /\ bookmarks' = [bookmarks EXCEPT ![bookmark_id] = row]
                /\ RaceStep(t, "update_load", [id |-> bookmark_id, user_id |-> user_id, b |-> None])
    /\ UNCHANGED <<writer, committed, next_id, offRace>>

\* get_bookmark_with_tags_for_index(...).await?: fetch_one fails on no row
bookmark_load(t) ==
    /\ pc[t] \in {"create_load", "update_load"}
    /\ LET op == IF pc[t] = "create_load" THEN "create_bookmark" ELSE "update_bookmark"
           id == arg[t].id
       IN  IF id \in DOMAIN bookmarks /\ bookmarks[id].user_id = arg[t].user_id
           THEN RaceStep(t, IF pc[t] = "create_load" THEN "create_index" ELSE "update_index",
                         BookmarkArg(get_bookmark_with_tags_for_index(bookmarks,
                                                                      arg[t].user_id, id)))
           ELSE RaceReturn(t, op, FALSE, 0)
    /\ UNCHANGED <<writer, committed, bookmarks, next_id, offRace>>

\* index_manager.add_bookmark(&bookmark_with_tags) of create_bookmark
bookmark_index_add(t) ==
    /\ pc[t] = "create_index"
    /\ Len(writer) < MaxDocs
    /\ writer' = Append(writer, MakeDocument(arg[t].b[1]))
    /\ RaceStep(t, "create_commit", arg[t])
    /\ UNCHANGED <<committed, bookmarks, next_id, offRace>>

\* index_manager.update_bookmark(&bookmark_with_tags) of update_bookmark
bookmark_index_update(t) ==
    /\ pc[t] = "update_index"
    /\ Len(DeleteById(writer, arg[t].id)) < MaxDocs
    /\ writer' = Append(DeleteById(writer, arg[t].id), MakeDocument(arg[t].b[1]))
    /\ RaceStep(t, "update_commit", arg[t])
    /\ UNCHANGED <<committed, bookmarks, next_id, offRace>>

\* delete_bookmark: the DELETE statement
delete_bookmark_tx(t, user_id, bookmark_id) ==
    /\ pc[t] = "idle"
    /\ LET was_deleted == /\ bookmark_id \in DOMAIN bookmarks
                          /\ bookmarks[bookmark_id].user_id = user_id
       IN  IF was_deleted
           THEN /\ bookmarks' = DeleteRow(bookmarks, bookmark_id)
                /\ RaceStep(t, "delete_index", IdArg(bookmark_id))
           ELSE /\ RaceReturn(t, "delete_bookmark", TRUE, 0)
                /\ UNCHANGED bookmarks
    /\ UNCHANGED <<writer, committed, next_id, offRace>>

\* index_manager.delete_bookmark(bookmark_id) of delete_bookmark
bookmark_index_delete(t) ==
    /\ pc[t] = "delete_index"
    /\ writer' = DeleteById(writer, arg[t].id)
    /\ RaceStep(t, "delete_commit", arg[t])
    /\ UNCHANGED <<committed, bookmarks, next_id, offRace>>

\* index_manager.commit(), then Ok(..)
bookmark_index_commit(t) ==
    /\ pc[t] \in {"create_commit", "update_commit", "delete_commit"}
    /\ committed' = writer
    /\ RaceReturn(t, CASE pc[t] = "create_commit" -> "create_bookmark"
                       [] pc[t] = "update_commit" -> "update_bookmark"
                       [] OTHER -> "delete_bookmark",
                  TRUE, IF pc[t] = "delete_commit" THEN 1 ELSE arg[t].id)
    /\ UNCHANGED <<writer, bookmarks, next_id, offRace>>

(***************************************************************************)
(* TantivySearchService::search_bookmarks: the page of the embedded index  *)
(* (or, without a query text, of table bookmarks), the rows of its ids and *)
(* the pagination block.                                                   *)
(***************************************************************************)
\* the ids of a user's bookmarks by ORDER BY created_at DESC
NewestFirst(table, user_id) ==
    LET ids == SortedIds({id \in DOMAIN table : table[id].user_id = user_id})
        n   == Len(ids)
    IN  [i \in 1..n |-> ids[n + 1 - i]]

\* search_without_text: SELECT COUNT(*), then SELECT id .. LIMIT $2 OFFSET $3
search_without_text(table, user_id, limit, offset) ==
    LET ids == NewestFirst(table, user_id)
    IN  [results |-> SubSeq(ids, offset + 1, Min(Len(ids), offset + limit)),
         total |-> Len(ids)]

\* fetch_bookmarks_by_ids: WHERE b.user_id = $1 AND b.id IN (..) ORDER BY
\* b.created_at DESC
fetch_bookmarks_by_ids(table, bookmark_ids, user_id) ==
    LET Wanted(id) == \E i \in 1..Len(bookmark_ids) : bookmark_ids[i] = id
    IN  SelectSeq(NewestFirst(table, user_id), Wanted)

\* search_bookmarks(user_id, filters, index_manager, db_pool)
search_bookmarks(snapshot, table, user_id, search_type, query, limit, offset) ==
    LET search_results ==
            IF trim(query) = <<>> THEN search_without_text(table, user_id, limit, offset)
            ELSE tantivy_search(snapshot, search_type, query, user_id, limit, offset)
        page == (offset \div limit) + 1
    IN  IF search_results.results = <<>>
        THEN [items |-> <<>>, page |-> page, limit |-> limit, total |-> 0,
              total_pages |-> 0, has_next |-> FALSE, has_prev |-> FALSE]
        ELSE LET total == search_results.total
                 total_pages == IF total = 0 THEN 0 ELSE (total + limit - 1) \div limit
             IN  [items |-> fetch_bookmarks_by_ids(table, search_results.results, user_id),
                  page |-> page, limit |-> limit, total |-> total,
                  total_pages |-> total_pages,
                  has_next |-> page < total_pages, has_prev |-> page > 1]

(***************************************************************************)
(* Specifications.                                                         *)
(***************************************************************************)
Init ==
    /\ writer = <<>>
    /\ committed = <<>>
    /\ searcher = <<>>
    /\ writer_lock = NoThread
    /\ pc = [t \in Threads |-> "idle"]
    /\ arg = [t \in Threads |-> NoArg]
    /\ hist = NoHist
    /\ resources = EmptyTable
    /\ tags = EmptyTable
    /\ resource_tags = {}
    /\ resources_fts = EmptyTable
    /\ next_id = [resources |-> 1, tags |-> 1, bookmarks |-> 1]
    /\ reply = [op |-> "none", ok |-> TRUE, value |-> 0, all |-> FALSE, was_empty |-> FALSE]
    /\ field_cache = NoThread
    /\ tx = None
    /\ bookmarks = EmptyTable
    /\ bookmarks_fts = EmptyTable
    /\ startup = "down"
    /\ rebuild = NoTask

\* the calls one caller can make on the index manager
IndexCall(t) ==
    \/ \E b \in Bookmarks : add_bookmark_lock(t, b)
    \/ add_bookmark(t)
    \/ \E b \in Bookmarks : update_bookmark_lock(t, b)
    \/ update_bookmark_delete(t)
    \/ update_bookmark_relock(t)
    \/ update_bookmark_add(t)
    \/ \E bookmark_id \in BookmarkIds : delete_bookmark_lock(t, bookmark_id)
    \/ delete_bookmark(t)
    \/ \E user_id \in Users : delete_by_user_lock(t, user_id)
    \/ delete_by_user(t)
    \/ commit_lock(t)
    \/ commit(t)
    \/ clear_all_lock(t)
    \/ clear_all(t)

\* the index manager shared by concurrent callers
Next ==
    \/ \E t \in Threads : IndexCall(t)
    \/ reload

Spec == Init /\ [][Next]_vars

\* the index manager used by one caller at a time
SeqNext ==
    \/ IndexCall("t1")
    \/ reload

SeqSpec == Init /\ [][SeqNext]_vars

\* one caller that adds documents and commits, and the reader that reloads
WriteNext ==
    \/ \E b \in Bookmarks \cup {FastBookmark} : add_bookmark_lock("t1", b)
    \/ add_bookmark("t1")
    \/ commit_lock("t1")
    \/ commit("t1")
    \/ reload

WriteSpec == Init /\ [][WriteNext]_vars

\* the same caller, who also deletes the documents of a tenant
TeardownNext ==
    \/ WriteNext
    \/ \E user_id \in Users : delete_by_user_lock("t1", user_id)
    \/ delete_by_user("t1")

TeardownSpec == Init /\ [][TeardownNext]_vars

\* readers and writers on the shared index manager, with the field cache lock
ReaderCall(t) ==
    \/ \E b \in Bookmarks : add_bookmark_lock(t, b)
    \/ add_bookmark_cache(t)
    \/ add_bookmark_document(t)
    \/ \E bookmark_id \in BookmarkIds : delete_bookmark_lock(t, bookmark_id)
    \/ field_cache = NoThread /\ delete_bookmark(t)
    \/ commit_lock(t)
    \/ commit(t)
    \/ \E user_id \in Users : search_call(t, user_id)
    \/ search_get_field_cached(t)
    \/ search_return(t)

ReaderNext ==
    \/ \E t \in Threads : ReaderCall(t)
    \/ reload

ReaderSpec == Init /\ [][ReaderNext]_vars

\* the shadow index: every request is one transaction of the primary store
ShadowNext ==
    \/ \E request \in CreateRequests : CreateResource(request.user_id, request.data)
    \/ \E user_id \in Users, resource_id \in ResourceIds, data \in UpdateInputs :
           UpdateResource(user_id, resource_id, data)
    \/ \E user_id \in Users, resource_id \in ResourceIds :
           DeleteResource(user_id, resource_id)
    \/ \E user_id \in Users, resource_id \in ResourceIds :
           IndexResource(user_id, resource_id)
    \/ \E user_id \in {None} \cup {Some(u) : u \in Users} : RebuildIndex(user_id)

ShadowSpec == Init /\ [][ShadowNext]_vars

T_Go_sp == <<"G", "o", " ">>
T_sp_fast_sp == <<" ", "f", "a", "s", "t", " ">>
T_blank == <<" ", " ">>

\* create requests whose texts and tags carry blanks: notes with leading,
\* trailing or only whitespace in a field, with empty and blank tags, with
\* an empty tag list and with no tags
SegmentRequests ==
    { [resource_type |-> "note", title |-> T_sp_RustGo, url |-> None,
       description |-> Some(T_sp_fast_sp), content |-> Some(<<>>), source |-> None,
       tags |-> Some(<< <<>>, T_rust, <<" ">>, T_go >>)],
      [resource_type |-> "note", title |-> T_Go_sp, url |-> None,
       description |-> Some(T_blank), content |-> Some(T_Java), source |-> None,
       tags |-> Some(<< <<" ">>, <<>> >>)],
      [resource_type |-> "note", title |-> T_Java, url |-> None,
       description |-> None, content |-> Some(T_sp_RustGo), source |-> None,
       tags |-> Some(<<>>)],
      [resource_type |-> "note", title |-> T_go, url |-> None,
       description |-> Some(<<>>), content |-> Some(T_go), source |-> None,
       tags |-> None] }

\* the resource service creating, re-indexing and deleting such records
SegmentNext ==
    \/ \E user_id \in Users, data \in SegmentRequests : CreateResource(user_id, data)
    \/ \E user_id \in Users, resource_id \in ResourceIds :
           IndexResource(user_id, resource_id)
    \/ \E user_id \in Users, resource_id \in ResourceIds :
           DeleteResource(user_id, resource_id)

SegmentSpec == Init /\ [][SegmentNext]_vars

\* the shadow index with failing statements and a rebuild that runs record
\* by record; a writer waits while the rebuild's transaction is open
FaultNext ==
    \/ tx = None /\ ShadowNext
    \/ \E request \in CreateRequests, failed \in CreateStatements :
           tx = None /\ CreateResourceFailing(request.user_id, request.data, failed)
    \/ \E user_id \in Users, resource_id \in ResourceIds, data \in UpdateInputs,
          failed \in UpdateStatements :
           tx = None /\ UpdateResourceFailing(user_id, resource_id, data, failed)
    \/ \E user_id \in {None} \cup {Some(u) : u \in Users} : BeginRebuild(user_id)
    \/ \E failed \in BOOLEAN : RebuildStep(failed)
    \/ RebuildCommit
    \/ RebuildStop

FaultSpec == Init /\ [][FaultNext]_vars

\* the requests one caller sends to the BookmarkService
BookmarkCall(index_manager) ==
    \/ \E data \in CreateBookmarks, failed \in BookmarkSteps :
           CreateBookmark(data, index_manager, failed)
    \/ \E user_id \in Users, bookmark_id \in 1..MaxDocs, data \in UpdateBookmarks,
          failed \in BookmarkSteps :
           UpdateBookmark(user_id, bookmark_id, data, index_manager, failed)
    \/ \E user_id \in Users, bookmark_id \in 1..MaxDocs, failed \in BookmarkSteps :
           DeleteBookmark(user_id, bookmark_id, index_manager, failed)

\* the BookmarkService with and without the embedded index
BookmarkNext ==
    \/ \E index_manager \in BOOLEAN : BookmarkCall(index_manager)
    \/ reload

BookmarkSpec == Init /\ [][BookmarkNext]_vars

\* the process from start to exit, the background rebuild, and the requests
\* that change table bookmarks meanwhile (no embedded index)
MaintNext ==
    \/ Start
    \/ \E failed \in BOOLEAN : check_and_rebuild_fts(failed)
    \/ \E failed \in BOOLEAN : rebuild_fts_delete(failed)
    \/ \E failed \in BOOLEAN : rebuild_fts_select(failed)
    \/ \E failed \in BOOLEAN : rebuild_fts_insert(failed)
    \/ rebuild_fts_finish
    \/ Stop
    \/ \E data \in CreateBookmarks : CreateBookmark(data, FALSE, "none")
    \/ \E user_id \in Users, bookmark_id \in 1..MaxDocs :
           DeleteBookmark(user_id, bookmark_id, FALSE, "none")

MaintSpec == Init /\ [][MaintNext]_vars

\* the startup task is polled until check_and_rebuild_fts returns; nothing
\* is assumed of the background task
StartupSpec ==
    Init /\ [][MaintNext]_vars /\ WF_vars(\E failed \in BOOLEAN : check_and_rebuild_fts(failed))

\* users create resources and update their own; any user asks for a delete
EditNext ==
    \/ \E request \in CreateRequests : CreateResource(request.user_id, request.data)
    \/ \E resource_id \in DOMAIN resources, data \in UpdateInputs :
           UpdateResource(resources[resource_id].user_id, resource_id, data)
    \/ \E user_id \in Users, resource_id \in DOMAIN resources :
           DeleteResource(user_id, resource_id)

EditSpec == Init /\ [][EditNext]_vars

\* resources and bookmarks are created with tags, resources get new tags,
\* tags are renamed
TagNext ==
    \/ \E request \in CreateRequests : CreateResource(request.user_id, request.data)
    \/ \E user_id \in Users, resource_id \in ResourceIds, data \in UpdateInputs :
           UpdateResource(user_id, resource_id, data)
    \/ \E data \in CreateBookmarks : CreateBookmark(data, FALSE, "none")
    \/ \E user_id \in Users, tag_id \in DOMAIN tags \cup {next_id.tags},
          update_data \in UpdateTags :
           UpdateTag(user_id, tag_id, update_data)

TagSpec == Init /\ [][TagNext]_vars

\* resources are created with tags; tags are added and removed in batches
\* and deleted
BatchNext ==
    \/ \E request \in CreateRequests : CreateResource(request.user_id, request.data)
    \/ \E user_id \in Users, request \in BatchRequests : BatchProcess(user_id, request)
    \/ \E user_id \in Users, tag_id \in DOMAIN tags \cup {next_id.tags} :
           DeleteTag(user_id, tag_id)

BatchSpec == Init /\ [][BatchNext]_vars

\* bookmarks are created and deleted with the embedded index, and deleted
\* in batches
BookmarkBatchNext ==
    \/ \E data \in CreateBookmarks : CreateBookmark(data, TRUE, "none")
    \/ \E user_id \in Users, bookmark_id \in 1..MaxDocs :
           DeleteBookmark(user_id, bookmark_id, TRUE, "none")
    \/ \E user_id \in Users, bookmark_ids \in BatchBookmarkIds :
           BookmarkBatchDelete(user_id, bookmark_ids)
    \/ reload

BookmarkBatchSpec == Init /\ [][BookmarkBatchNext]_vars

\* one caller adds and updates documents while another caller commits
UpdateCommitNext ==
    \/ \E b \in Bookmarks : add_bookmark_lock("t1", b)
    \/ add_bookmark("t1")
    \/ \E b \in Bookmarks : update_bookmark_lock("t1", b)
    \/ update_bookmark_delete("t1")
    \/ update_bookmark_relock("t1")
    \/ update_bookmark_add("t1")
    \/ commit_lock("t2")
    \/ commit("t2")
    \/ reload

UpdateCommitSpec == Init /\ [][UpdateCommitNext]_vars

\* the update bodies of the racing callers: a new title, only new tags
RaceUpdates == {data \in UpdateBookmarks : data.url = None}

\* two callers of BookmarkService on one index manager: one creates and
\* updates bookmarks, the other deletes them
RaceNext ==
    \/ \E data \in CreateBookmarks : create_bookmark_tx("t1", data)
    \/ \E user_id \in Users, bookmark_id \in 1..MaxDocs, data \in RaceUpdates :
           update_bookmark_tx("t1", user_id, bookmark_id, data)
    \/ \E user_id \in Users, bookmark_id \in 1..MaxDocs :
           delete_bookmark_tx("t2", user_id, bookmark_id)
    \/ bookmark_load("t1")
    \/ bookmark_index_add("t1")
    \/ bookmark_index_update("t1")
    \/ bookmark_index_delete("t2")
    \/ \E t \in Threads : bookmark_index_commit(t)
    \/ reload

RaceSpec == Init /\ [][RaceNext]_vars

\* the record the concurrent callers write, and its owner
LockBookmarks == {b \in Bookmarks : b.id = 1}

\* a call on the index manager starts: a mutation with the writer Mutex in
\* its hand, a search or a highlight before its first field lookup
LockStart(t) ==
    \/ \E b \in LockBookmarks : add_bookmark_lock(t, b)
    \/ \E b \in LockBookmarks : update_bookmark_lock(t, b)
    \/ \E b \in LockBookmarks : delete_bookmark_lock(t, b.id)
    \/ \E b \in LockBookmarks : delete_by_user_lock(t, b.user_id)
    \/ commit_lock(t)
    \/ clear_all_lock(t)
    \/ \E b \in LockBookmarks : search_call(t, b.user_id)
    \/ \E b \in LockBookmarks : highlight_call(t, b.id)

\* a started call goes on; get_field_cached inside delete_bookmark_internal
\* and delete_by_user takes the field cache and drops it again
LockContinue(t) ==
    \/ add_bookmark_cache(t)
    \/ add_bookmark_document(t)
    \/ field_cache = NoThread /\ update_bookmark_delete(t)
    \/ update_bookmark_relock(t)
    \/ field_cache = NoThread /\ update_bookmark_add(t)
    \/ field_cache = NoThread /\ delete_bookmark(t)
    \/ field_cache = NoThread /\ delete_by_user(t)
    \/ commit(t)
    \/ clear_all(t)
    \/ search_get_field_cached(t)
    \/ search_return(t)
    \/ highlight_get_field_cached(t)
    \/ highlight_return(t)

LockNext ==
    \/ \E t \in Threads : LockStart(t)
    \/ \E t \in Threads : LockContinue(t)

\* every caller runs on a thread of its own that the scheduler keeps
\* running, and a thread that finds a Mutex free again and again gets it
LockSpec ==
    Init /\ [][LockNext]_vars /\ \A t \in Threads : SF_vars(LockContinue(t))

(***************************************************************************)
(* Properties of the embedded index.                                       *)
(***************************************************************************)
\* (limit, offset) pairs: the first hit, the second hit, every hit
Pages == {<<1, 0>>, <<1, 1>>, <<MaxDocs + 1, 0>>}

\* the empty query, a word both tenants hold, a misspelling of it, a word
\* one tenant holds
IsolationQueries == {<<>>, T_rust, T_ruts, T_Java}

\* a page large enough for every document of a snapshot
AllHits(snapshot, query_str, user_id) ==
    ResultIds(search(snapshot, query_str, user_id, Len(snapshot) + 1, 0))

\* C1: tenant isolation - whatever was added, updated, deleted, committed
\* and reloaded, every record id that search(text, A, limit, offset) returns
\* is the id of documents whose indexed user_id is A, and of no other's
C1_TenantIsolation ==
    \A query_str \in IsolationQueries, user_id \in Users, page \in Pages :
        \A bookmark_id \in ResultIds(search(searcher, query_str, user_id, page[1], page[2])) :
            \A a \in DocsOf(searcher, bookmark_id) : searcher[a].user_id = user_id

\* two tenants hold documents with the same title and one of them searches it
C1_Witness ==
    /\ \E a, b \in 1..Len(searcher) :
           /\ searcher[a].user_id # searcher[b].user_id
           /\ searcher[a].title = searcher[b].title
    /\ AllHits(searcher, T_rust, 1) = {1}
    /\ AllHits(searcher, T_rust, 2) = {2}

WriterSteps == {"add", "update_delete", "update_add", "delete", "delete_by_user"}

\* C3: commit visibility - the snapshot search() and get_stats() read changes
\* only by a reload, and then to the last commit; the last commit changes
\* only in commit() (or the commit inside clear_all); an add, update, delete
\* or delete_by_user leaves the snapshot and the last commit as they were
C3_CommitVisibility ==
    [][ /\ searcher' # searcher =>
              /\ searcher' = committed
              /\ committed' = committed
              /\ writer' = writer
        /\ committed' # committed =>
              \E t \in Threads : pc[t] \in {"commit", "clear_all"} /\ pc'[t] = "idle"
        /\ (\E t \in Threads : pc[t] \in WriterSteps /\ pc'[t] # pc[t]) =>
              /\ searcher' = searcher
              /\ committed' = committed
              /\ get_stats(searcher') = get_stats(searcher)
      ]_vars

\* a committed add the reader has not reloaded: it still serves the old snapshot
C3_Witness ==
    /\ hist.op = "add"
    /\ hist.phase = "committed"
    /\ searcher = hist.base
    /\ committed # searcher
    /\ IdIndexed(committed, hist.arg.id)
    /\ ~IdIndexed(searcher, hist.arg.id)

\* the texts of the indexed fields of a bookmark
IndexedTexts(b) ==
    {FieldText(b, field)[1] : field \in {f \in TextFields : FieldText(b, f) # None}}

\* the bookmarks a served document was built from
SourcesOf(doc) == {b \in Bookmarks : MakeDocument(b) = doc}

\* C4: add/commit/search round trip - a document the reader serves is
\* returned to its owner by a search for the exact text of any of its fields
C4_RoundTrip ==
    \A a \in 1..Len(searcher) :
        \A b \in SourcesOf(searcher[a]) :
            \A text \in IndexedTexts(b) :
                b.id \in AllHits(searcher, text, b.user_id)

\* the update the history holds has been committed and reloaded, and it
\* started from a snapshot with one document of its record id
UpdateDone ==
    /\ hist.op = "update"
    /\ hist.phase = "reloaded"
    /\ Cardinality(DocsOf(hist.base, hist.arg.id)) = 1

\* the document of the record id in the snapshot the update started from
OldDoc == hist.base[CHOOSE a \in DocsOf(hist.base, hist.arg.id) : TRUE]

\* C5 as claimed: after update, commit and reload one document has the
\* record id, with the new field values, get_stats() is unchanged, and no
\* word that occurs only in the earlier version finds it
C5_UpdateReplacesClaimed ==
    UpdateDone =>
        LET new == MakeDocument(hist.arg.b[1])
        IN  /\ Cardinality(DocsOf(searcher, new.id)) = 1
            /\ \A a \in DocsOf(searcher, new.id) : searcher[a] = new
            /\ get_stats(searcher) = get_stats(hist.base)
            /\ \A field \in TextFields :
                   \A word \in FieldTerms(OldDoc, field) :
                       (\A f \in TextFields : word \notin FieldTerms(new, f)) =>
                           new.id \notin AllHits(searcher, word, new.user_id)

\* C5: after update, commit and reload one document has the record id, with
\* the new field values, get_stats() is unchanged, and a word of the earlier
\* version that is farther than the fuzzy distance from every word of the
\* new version does not find it
C5_UpdateReplaces ==
    UpdateDone =>
        LET new == MakeDocument(hist.arg.b[1])
        IN  /\ Cardinality(DocsOf(searcher, new.id)) = 1
            /\ \A a \in DocsOf(searcher, new.id) : searcher[a] = new
            /\ get_stats(searcher) = get_stats(hist.base)
            /\ \A field \in TextFields :
                   \A word \in FieldTerms(OldDoc, field) :
                       ~build_text_query(new, word) =>
                           new.id \notin AllHits(searcher, word, new.user_id)
            /\ \A field \in TextFields :
                   \A word \in FieldTerms(new, field) :
                       new.id \in AllHits(searcher, word, new.user_id)

\* an update that changed the title was committed and reloaded, and a word
\* of the old title no longer finds the document
C5_Witness ==
    /\ UpdateDone
    /\ OldDoc.title = T_RustGo
    /\ hist.arg.b[1].title = T_Ruby
    /\ hist.arg.id \notin AllHits(searcher, T_rust, hist.arg.user_id)
    /\ hist.arg.id \in AllHits(hist.base, T_rust, hist.arg.user_id)

\* C6: record ids are unique - no commit holds two documents with one id
C6_UniqueRecordId ==
    \A a, b \in 1..Len(committed) : committed[a].id = committed[b].id => a = b

\* the delete the history holds has been committed and reloaded, and the
\* record id was indexed in the snapshot it started from
DeleteDone ==
    /\ hist.op = "delete"
    /\ hist.phase = "reloaded"
    /\ IdIndexed(hist.base, hist.arg.id)

\* the title terms of the document at address a that no other document holds
UniqueTitleTerms(snapshot, a) ==
    {word \in FieldTerms(snapshot[a], "title") :
        \A o \in 1..Len(snapshot) : o # a =>
            \A field \in TextFields : word \notin FieldTerms(snapshot[o], field)}

\* the title terms of the document at address a that match no other
\* document of its owner
UnmatchedTitleTerms(snapshot, a) ==
    {word \in FieldTerms(snapshot[a], "title") :
        \A o \in 1..Len(snapshot) : o # a =>
            ~build_query(snapshot[o], word, snapshot[a].user_id)}

\* the documents other than the deleted one are served and found as before
OthersKept ==
    \A o \in 1..Len(hist.base) : hist.base[o].id # hist.arg.id =>
        /\ hist.base[o] \in Range(searcher)
        /\ \A query_str \in Queries :
               hist.base[o].id \in AllHits(hist.base, query_str, hist.base[o].user_id) =>
                   hist.base[o].id \in AllHits(searcher, query_str, hist.base[o].user_id)

\* C7 as claimed: after delete, commit and reload a search by the owner for
\* a title term unique to the deleted document has no hit, get_stats() is
\* one less, every other document is still found
C7_DeleteRemovesClaimed ==
    DeleteDone =>
        /\ get_stats(searcher) = get_stats(hist.base) - 1
        /\ OthersKept
        /\ \A a \in DocsOf(hist.base, hist.arg.id) :
               \A word \in UniqueTitleTerms(hist.base, a) :
                   LET resp == search(searcher, word, hist.base[a].user_id,
                                      Len(searcher) + 1, 0)
                   IN  resp.results = <<>> /\ resp.total = 0

\* C7: after delete, commit and reload a search by the owner for a title
\* term of the deleted document that matches (within the fuzzy distance) no
\* other document of that owner has no hit, the deleted record id is never
\* a hit, get_stats() is one less, every other document is still found
C7_DeleteRemoves ==
    DeleteDone =>
        /\ get_stats(searcher) = get_stats(hist.base) - 1
        /\ OthersKept
        /\ \A a \in DocsOf(hist.base, hist.arg.id) :
               /\ \A word \in UnmatchedTitleTerms(hist.base, a) :
                      LET resp == search(searcher, word, hist.base[a].user_id,
                                         Len(searcher) + 1, 0)
                      IN  resp.results = <<>> /\ resp.total = 0
               /\ \A query_str \in Queries :
                      hist.arg.id \notin AllHits(searcher, query_str, hist.base[a].user_id)

\* a document was deleted, committed and reloaded while another one stayed
C7_Witness ==
    /\ DeleteDone
    /\ Len(hist.base) = 2
    /\ Len(searcher) = 1
    /\ \E a \in DocsOf(hist.base, hist.arg.id) : UnmatchedTitleTerms(hist.base, a) # {}

\* C10: single writer - while one caller is inside a mutation (update
\* counting from its delete to its add) no other caller is inside one
C10_SingleWriter ==
    \A t, u \in Threads : t # u => ~(pc[t] # "idle" /\ pc[u] # "idle")

(***************************************************************************)
(* Properties of the shadow index.                                         *)
(***************************************************************************)
\* the last request was a create, update or delete that did what it was
\* asked to (an update or delete of a record the caller does not own
\* returns None / false)
MutationSucceeded ==
    /\ reply.ok
    /\ \/ reply.op = "create_resource"
       \/ reply.op \in {"update_resource", "delete_resource"} /\ reply.value = 1

\* C2: shadow-index consistency - after a successful create_resource,
\* update_resource or delete_resource every resource id has a resources_fts
\* row exactly if it has a resources row, and the row's title, description
\* and tags are the segmented current values of the resource
C2_ShadowConsistency ==
    MutationSucceeded =>
        \A resource_id \in ResourceIds :
            /\ resource_id \in DOMAIN resources_fts <=> resource_id \in DOMAIN resources
            /\ resource_id \in DOMAIN resources /\ resource_id \in DOMAIN resources_fts =>
                   LET row == FtsRow(DB, resource_id, resources[resource_id].user_id)
                   IN  /\ resources_fts[resource_id].title = row.title
                       /\ resources_fts[resource_id].description = row.description
                       /\ resources_fts[resource_id].tags = row.tags

\* C8: idempotent indexing - from every state of the store, index_resource
\* called twice for a resource (in one transaction, or in two: the state
\* after the first is itself a state of the store) leaves the tables that
\* calling it once leaves, with one row for the resource
C8_IdempotentIndexing ==
    \A resource_id \in ResourceIds, user_id \in Users :
        LET once == index_resource(DB, resource_id, user_id)
            twice == index_resource(once.db, resource_id, user_id)
        IN  once.ok =>
                /\ twice.ok
                /\ twice.db = once.db
                /\ resource_id \in DOMAIN once.db.resources_fts
                /\ once.db.resources_fts[resource_id] = FtsRow(DB, resource_id, user_id)

\* index_resource has run in a transaction of its own and a resource with
\* tags has its row
C8_Witness ==
    /\ reply.op = "index_resource"
    /\ reply.ok
    /\ \E resource_id \in DOMAIN resources_fts : resources_fts[resource_id].tags # <<>>

\* the words of a resource's title that no column of another resource holds
UniqueTitleWords(db, resource_id) ==
    {word \in Tokenize(db.resources[resource_id].title) :
        \A other \in DOMAIN db.resources \ {resource_id} :
            LET row == FtsRow(db, other, db.resources[other].user_id)
            IN  \A col \in FtsColumns : word \notin Tokenize(row[col])}

\* rebuild_index(None) has just returned Ok
RebuildDone ==
    /\ reply.op = "rebuild_index"
    /\ reply.all
    /\ reply.ok

\* C9 as claimed: called with an empty shadow table, rebuild_index(None)
\* returns the number of resources, and then every resource has a row and
\* is returned to its owner by a search for any word unique to its title
C9_RebuildConvergenceClaimed ==
    RebuildDone /\ reply.was_empty =>
        /\ reply.value = Cardinality(DOMAIN resources)
        /\ \A resource_id \in DOMAIN resources :
               /\ resource_id \in DOMAIN resources_fts
               /\ \A word \in UniqueTitleWords(DB, resource_id) :
                      LET resp == search_resources(DB, resources[resource_id].user_id, word)
                      IN  resp.ok /\ resource_id \in resp.items

\* C9: rebuild_index(None) returns the number of resources, and then every
\* resource has a row and is returned to its owner by a search for any word
\* unique to its title that is at least MIN_SEARCH_QUERY_LENGTH long; a
\* shorter word is refused
C9_RebuildConvergence ==
    RebuildDone =>
        /\ reply.value = Cardinality(DOMAIN resources)
        /\ \A resource_id \in DOMAIN resources :
               /\ resource_id \in DOMAIN resources_fts
               /\ resources_fts[resource_id] =
                      FtsRow(DB, resource_id, resources[resource_id].user_id)
               /\ \A word \in UniqueTitleWords(DB, resource_id) :
                      LET resp == search_resources(DB, resources[resource_id].user_id, word)
                      IN  IF Len(word) >= MIN_SEARCH_QUERY_LENGTH
                          THEN resp.ok /\ resource_id \in resp.items
                          ELSE ~resp.ok

\* two resources, an empty shadow table, and rebuild_index(None) returned 2;
\* one of the resources is found by a word unique to its title
C9_Witness ==
    /\ RebuildDone
    /\ reply.was_empty
    /\ reply.value = 2
    /\ Cardinality(DOMAIN resources) = 2
    /\ \E resource_id \in DOMAIN resources :
           \E word \in UniqueTitleWords(DB, resource_id) :
               /\ Len(word) >= MIN_SEARCH_QUERY_LENGTH
               /\ resource_id \in
                      search_resources(DB, resources[resource_id].user_id, word).items

(***************************************************************************)
(* Properties of the reader and writer discipline.                         *)
(***************************************************************************)
\* calls that mutate the index (add, update, delete, commit), in any step
MutationPcs == {"add", "add_cached", "update_delete", "update_unlocked", "update_add",
                "delete", "delete_by_user", "commit", "clear_all"}

\* C11: readers and writers do not block each other: a search that is about
\* to take a lock never finds it held by a call that mutates the index, and
\* a mutation that is about to take a lock never finds it held by a search.
C11_ReadersWritersNeverWait ==
    \A r \in Threads, w \in Threads :
        /\ (pc[r] = "search" /\ pc[w] \in MutationPcs) => field_cache # w
        /\ (pc[w] = "add" /\ writer_lock = w /\ pc[r] = "search_cached") => field_cache # r

(***************************************************************************)
(* Properties of failing requests and of the bulk rebuild.                 *)
(***************************************************************************)
\* C12: the shadow path is all-or-nothing: a create_resource or
\* update_resource that returns an error leaves no resources, tags,
\* resource_tags or resources_fts change behind.
C12_ShadowAllOrNothing ==
    [][(reply'.op \in {"create_resource", "update_resource"} /\ ~reply'.ok)
          => UNCHANGED <<resources, tags, resource_tags, resources_fts>>]_vars

\* C14: a bulk rebuild survives a bad record: when the rebuild of every
\* user's index has ended, the job has completed and every record other
\* than one whose indexing failed has its shadow row.
C14_RebuildSurvivesBadRecord ==
    (reply.op = "rebuild_index" /\ reply.all) =>
        /\ reply.ok
        /\ \A id \in DOMAIN resources :
               id \in DOMAIN resources_fts \/ (~reply.ok /\ id = reply.value)

\* C16: crash-safe rebuild granularity: no transaction stays open from one
\* record of the scan to the next, and a rebuild of every user's index that
\* stops after k records leaves the first k records of the scan indexed.
C16_CrashSafeRebuild ==
    /\ tx # None => tx[1].done = <<>>
    /\ (reply.op = "rebuild_index_stopped" /\ reply.all) =>
           \A i \in 1..reply.value :
               SortedIds(DOMAIN resources)[i] \in DOMAIN resources_fts

\* C18: delete_resource deletes the shadow row and the primary row together:
\* in a delete_resource call the resources_fts row of an id goes exactly
\* when the resources row of that id goes.
C18_DeleteBothOrNeither ==
    [][reply'.op = "delete_resource" =>
          \A id \in ResourceIds :
              (id \in DOMAIN resources_fts /\ id \notin DOMAIN resources_fts')
                  <=> (id \in DOMAIN resources /\ id \notin DOMAIN resources')]_vars

\* C13: a BookmarkService call that has changed the primary store returns
\* success, whatever fails in the steps that update the search index.
C13_IndexingBestEffort ==
    [][(reply'.op \in {"create_bookmark", "update_bookmark", "delete_bookmark"}
          /\ bookmarks' # bookmarks) => reply'.ok]_vars

\* C15: check_and_rebuild_fts starts a rebuild only when table bookmarks has
\* a row and bookmarks_fts is empty; with bookmarks_fts populated it starts
\* nothing.
C15_StartupCheck ==
    [][(startup = "checking" /\ startup' = "returned_ok")
          => ((rebuild'.pc = "spawned")
                 <=> (DOMAIN bookmarks # {} /\ DOMAIN bookmarks_fts = {}))]_vars

\* C17: check_and_rebuild_fts always returns to its caller, whatever the
\* background rebuild does and however long it takes.
C17_StartupNeverBlocked ==
    (startup = "checking") ~> (startup \in {"returned_ok", "returned_err"})

\* startup is over while the rebuild it started is still inserting rows
C17_Witness ==
    /\ startup = "returned_ok"
    /\ rebuild.pc = "inserting"
    /\ rebuild.rows # <<>>

\* the misspellings of every word the index can hold: <<misspelling, word>>
Misspelled == UNION {{<<q, w>> : q \in Misspellings(w)} : w \in AllTerms}

\* the words indexed for a document, in any of its text fields
IndexedWords(doc) == UNION {FieldTerms(doc, field) : field \in TextFields}

\* C19: fuzzy tolerance - a query that is a one-edit misspelling (a character
\* put in, left out or replaced, two neighbours swapped) of a word indexed in
\* the title, url, description or tags of a document of the snapshot returns
\* that document to its owner; "rusty" and "ruts" find a document indexed
\* with "rust"
C19_FuzzyTolerance ==
    \A a \in 1..Len(searcher) :
        /\ \A p \in Misspelled :
               p[2] \in IndexedWords(searcher[a])
                   => searcher[a].id \in AllHits(searcher, p[1], searcher[a].user_id)
        /\ T_rust \in IndexedWords(searcher[a])
               => \A q \in {T_rusty, T_ruts} :
                      searcher[a].id \in AllHits(searcher, q, searcher[a].user_id)

\* a committed and reloaded document indexed with "rust", and one with "jvm"
\* in its tags only, each found by its owner under a misspelling
C19_Witness ==
    /\ \E a \in 1..Len(searcher) :
           /\ T_rust \in FieldTerms(searcher[a], "tags")
           /\ searcher[a].id \in AllHits(searcher, T_rusty, searcher[a].user_id)
           /\ searcher[a].id \in AllHits(searcher, T_ruts, searcher[a].user_id)
    /\ \E a \in 1..Len(searcher) :
           /\ T_jvm \in FieldTerms(searcher[a], "tags")
           /\ searcher[a].id \in AllHits(searcher, SwapAt(T_jvm, 1), searcher[a].user_id)

\* the field a scoped search is about
ScopedField(search_type) ==
    CASE search_type = "Title" -> "title"
      [] search_type = "Content" -> "description"
      [] search_type = "Url" -> "url"

\* C20: field-scoped search - a search scoped to the title, the description
\* or the url returns a document of the owner when the query word is indexed
\* in that field, and only when the query matches in that field.
C20_FieldScopedSearch ==
    \A a \in 1..Len(searcher), search_type \in SearchTypes \ {"All"}, w \in AllTerms :
        LET doc == searcher[a]
            ids == ResultIds(tantivy_search(searcher, search_type, w, doc.user_id,
                                            Len(searcher) + 1, 0))
        IN  /\ w \in FieldTerms(doc, ScopedField(search_type)) => doc.id \in ids
            /\ doc.id \in ids => FuzzyFieldMatches(doc, ScopedField(search_type), w)

\* limits and offsets of a page, up to one past the largest snapshot
PageLimits == 1..(MaxDocs + 1)
PageOffsets == 0..(MaxDocs + 1)

\* the empty query, a word two documents of one owner hold, a word of one
PagingQueries == {<<>>, T_fast, T_rust}

\* C21: search paging - the hits of search(text, owner, limit, offset) are
\* the entries offset .. offset+limit-1 of the list of all matching documents
\* by decreasing score (at most limit, none past the end), and total is the
\* number of all matching documents for every limit and offset.
C21_SearchPaging ==
    \A query_str \in PagingQueries, user_id \in Users :
        LET matching == Matching(searcher, query_str, user_id)
            total == Cardinality(matching)
            all == Ranked(Hits(searcher, query_str, user_id))
        IN  /\ Len(all) = total
            /\ Range(all) = matching
            /\ \A i \in 1..(Len(all) - 1) :
                   Score(searcher[all[i]], query_str) >= Score(searcher[all[i + 1]], query_str)
            /\ \A limit \in PageLimits, offset \in PageOffsets :
                   LET resp == search(searcher, query_str, user_id, limit, offset)
                       n == Len(resp.results)
                   IN  /\ resp.total = total
                       /\ n <= limit
                       /\ n = IF offset >= total THEN 0
                              ELSE IF total - offset < limit THEN total - offset ELSE limit
                       /\ \A i \in 1..n : resp.results[i] = searcher[all[offset + i]].id

\* two hits of one owner, the better one added last: the first page of one
\* holds it, the second page the other, the third none
C21_Witness ==
    /\ Len(searcher) = 2
    /\ searcher[1].id = 1
    /\ searcher[2] = MakeDocument(FastBookmark)
    /\ search(searcher, T_fast, 1, 1, 0) = [results |-> <<3>>, total |-> 2]
    /\ search(searcher, T_fast, 1, 1, 1) = [results |-> <<1>>, total |-> 2]
    /\ search(searcher, T_fast, 1, 1, 2) = [results |-> <<>>, total |-> 2]

\* the query words a highlight is asked for
HighlightWords == AllTerms \cup {T_Ruby, T_rusty}

\* C22: highlight graceful degradation - generate_highlights for a document
\* of the snapshot and a query word that neither its title nor its
\* description holds returns Ok with an empty map.
C22_HighlightNoMatch ==
    \A a \in 1..Len(searcher), w \in HighlightWords :
        (LowerText(w) \notin FieldTerms(searcher[a], "title")
                                \cup FieldTerms(searcher[a], "description"))
            => generate_highlights(searcher, searcher[a].id, w, "none")
                   = [ok |-> TRUE, highlights |-> EmptyTable]

\* a document whose title is highlighted for "rust" and for which "jvm",
\* a word of no document's title or description, gives the empty map
C22_Witness ==
    \E a \in 1..Len(searcher) :
        /\ generate_highlights(searcher, searcher[a].id, T_rust, "none")
               = [ok |-> TRUE,
                  highlights |-> [f \in {"title"} |->
                                    <<<<"<b>", "R", "u", "s", "t", "</b>", " ", "G", "o">>>>]]
        /\ generate_highlights(searcher, searcher[a].id, T_jvm, "none")
               = [ok |-> TRUE, highlights |-> EmptyTable]

\* C23: per-field highlight failure is local - when the snippet generator
\* of one field fails, the call still returns the highlight of the other
\* field, and leaves out only the failed one.
C23_FieldFailureLocal ==
    \A a \in 1..Len(searcher), w \in HighlightWords, failed \in HighlightFields :
        LET full == generate_highlights(searcher, searcher[a].id, w, "none")
            part == generate_highlights(searcher, searcher[a].id, w, failed)
        IN  full.ok =>
                /\ part.ok
                /\ DOMAIN part.highlights = DOMAIN full.highlights \ {failed}
                /\ \A f \in DOMAIN part.highlights : part.highlights[f] = full.highlights[f]

\* C24: a failure in the ranking search or in the highlight generation
\* gives the user an empty result, never an internal error.
C24_FailuresDegrade ==
    \A a \in 1..Len(searcher), w \in HighlightWords :
        /\ \A failed \in HighlightSteps \ {"none"} :
               service_generate_highlights(searcher, searcher[a].id, w, failed) = EmptyTable
        /\ LET res == tantivy_search_result(searcher, "All", w, searcher[a].user_id,
                                            MaxDocs + 1, 0, TRUE)
           IN  res.ok /\ res.results = <<>>

\* the database after a step
DBNext == [resources |-> resources', tags |-> tags', resource_tags |-> resource_tags',
           resources_fts |-> resources_fts', next_id |-> next_id']

\* the words of a resource's title, description and tags
CurrentWords(db, resource_id) ==
    LET resource == db.resources[resource_id]
        tag_names == TagNames(db, resource_id, resource.user_id)
    IN  Tokenize(resource.title) \cup Tokenize(unwrap_or_default(resource.description))
            \cup UNION {Tokenize(tag_names[i]) : i \in 1..Len(tag_names)}

\* the shadow rows a step has written
Written == {id \in DOMAIN resources_fts' :
               id \notin DOMAIN resources_fts \/ resources_fts'[id] # resources_fts[id]}

\* a search of the owner for any word of the resource returns it
FoundByEveryWord(db, resource_id) ==
    \A word \in CurrentWords(db, resource_id) :
        LET resp == search_resources(db, db.resources[resource_id].user_id, word)
        IN  resp.ok /\ resource_id \in resp.items

\* the same for the words search_resources accepts; it refuses the others
FoundByEveryLongWord(db, resource_id) ==
    \A word \in CurrentWords(db, resource_id) :
        LET resp == search_resources(db, db.resources[resource_id].user_id, word)
        IN  IF Len(word) >= MIN_SEARCH_QUERY_LENGTH
            THEN resp.ok /\ resource_id \in resp.items
            ELSE ~resp.ok

\* after delete_resource returned true no search returns the resource
GoneForEveryone(resource_id) ==
    \A user_id \in Users, word \in CurrentWords(DB, resource_id) :
        resource_id \notin search_resources(DBNext, user_id, word).items

\* C25 as claimed: when create_resource or update_resource returns success
\* a search of the owner for any word of the resource's title, description
\* or tags returns it at once; when delete_resource returns true no search
\* returns it.
C25_ReadYourWritesClaimed ==
    [][ /\ (reply'.op = "create_resource" /\ reply'.ok)
              => FoundByEveryWord(DBNext, reply'.value)
        /\ (reply'.op = "update_resource" /\ reply'.ok /\ reply'.value = 1)
              => \A resource_id \in Written : FoundByEveryWord(DBNext, resource_id)
        /\ (reply'.op = "delete_resource" /\ reply'.ok /\ reply'.value = 1)
              => \A resource_id \in DOMAIN resources \ DOMAIN resources' :
                     GoneForEveryone(resource_id)
      ]_vars

\* C25: the same for the words of at least MIN_SEARCH_QUERY_LENGTH
\* characters; search_resources refuses a shorter word.
C25_ReadYourWrites ==
    [][ /\ (reply'.op = "create_resource" /\ reply'.ok)
              => FoundByEveryLongWord(DBNext, reply'.value)
        /\ (reply'.op = "update_resource" /\ reply'.ok /\ reply'.value = 1)
              => \A resource_id \in Written : FoundByEveryLongWord(DBNext, resource_id)
        /\ (reply'.op = "delete_resource" /\ reply'.ok /\ reply'.value = 1)
              => \A resource_id \in DOMAIN resources \ DOMAIN resources' :
                     GoneForEveryone(resource_id)
      ]_vars

\* update_resource has just given a resource the tags jvm and rust, and a
\* search of its owner for "jvm" returns it
C25_Witness ==
    /\ reply.op = "update_resource"
    /\ reply.ok
    /\ reply.value = 1
    /\ \E resource_id \in DOMAIN resources :
           /\ T_jvm \in CurrentWords(DB, resource_id)
           /\ resource_id \in search_resources(DB, resources[resource_id].user_id, T_jvm).items

\* C26: one segmentation transform everywhere - the keyword columns the
\* maintenance rebuild writes for a record are the ones the per-record
\* transform (prepare_for_search, prepare_tags_for_search) gives for it.
C26_OneSegmentation ==
    \A id \in DOMAIN bookmarks_fts \cap DOMAIN bookmarks :
        /\ bookmarks_fts[id].title = prepare_for_search(Some(bookmarks[id].title))
        /\ bookmarks_fts[id].description = prepare_for_search(bookmarks[id].description)
        /\ bookmarks_fts[id].tags = prepare_tags_for_search(bookmarks[id].tags)

\* the delete_by_user the history holds has been committed and reloaded
DeleteByUserDone ==
    /\ hist.op = "delete_by_user"
    /\ hist.phase = "reloaded"

\* the documents a tenant held when the call in the history started
OwnedBy(user_id) == {a \in 1..Len(hist.base) : hist.base[a].user_id = user_id}

\* C27: delete_by_user removes one tenant only - after delete_by_user(A),
\* commit and reload no document of A is served or found by any search of
\* A, every document of every other tenant is served with its fields
\* unchanged and found by the searches that found it before, and
\* get_stats() has dropped by exactly the number of A's documents
C27_DeleteByUser ==
    DeleteByUserDone =>
        /\ \A a \in 1..Len(searcher) : searcher[a].user_id # hist.arg.user_id
        /\ \A query_str \in Queries : AllHits(searcher, query_str, hist.arg.user_id) = {}
        /\ \A o \in 1..Len(hist.base) : hist.base[o].user_id # hist.arg.user_id =>
               /\ hist.base[o] \in Range(searcher)
               /\ \A query_str \in Queries :
                      hist.base[o].id \in AllHits(hist.base, query_str, hist.base[o].user_id) =>
                          hist.base[o].id \in AllHits(searcher, query_str, hist.base[o].user_id)
        /\ get_stats(searcher) = get_stats(hist.base) - Cardinality(OwnedBy(hist.arg.user_id))

\* a tenant with documents was deleted while another tenant kept one
C27_Witness ==
    /\ DeleteByUserDone
    /\ OwnedBy(hist.arg.user_id) # {}
    /\ Len(searcher) > 0
    /\ Len(searcher) < Len(hist.base)

\* r is t without its leading and its trailing whitespace
IsTrimOf(r, t) ==
    \E i, j \in 0..Len(t) :
        /\ i + j <= Len(t)
        /\ r = SubSeq(t, i + 1, Len(t) - j)
        /\ \A k \in 1..i : t[k] \in Whitespace
        /\ \A k \in (Len(t) - j + 1)..Len(t) : t[k] \in Whitespace
        /\ r # <<>> => r[1] \notin Whitespace /\ r[Len(r)] \notin Whitespace

\* a text with at least one character that is not whitespace
HasText(t) == \E k \in 1..Len(t) : t[k] \notin Whitespace

RECURSIVE SpaceSeparated(_, _)
\* the first n texts of a list, in order, one space between neighbours
SpaceSeparated(texts, n) ==
    IF n = 0 THEN <<>>
    ELSE IF n = 1 THEN texts[1]
    ELSE SpaceSeparated(texts, n - 1) \o <<" ">> \o texts[n]

\* the optional texts handed to prepare_for_search: every text column of
\* every stored record, and no text
SegmentedTexts ==
    {None} \cup UNION {{Some(resources[id].title), resources[id].description,
                        resources[id].content} : id \in DOMAIN resources}

\* the tag lists handed to prepare_tags_for_search: the tag names of every
\* stored record
SegmentedTagLists ==
    {TagNames(DB, id, resources[id].user_id) : id \in DOMAIN resources}

\* C28: default-mode segmenter - prepare_for_search returns the input
\* without leading and trailing whitespace, and the empty string for None,
\* for an empty and for a whitespace-only input; prepare_tags_for_search
\* drops the empty and the whitespace-only tags and joins the others, in
\* order, with single spaces, and gives the empty string for an empty list
C28_DefaultSegmenter ==
    /\ \A text \in SegmentedTexts :
           /\ text = None => prepare_for_search(text) = <<>>
           /\ text # None =>
                  /\ IsTrimOf(prepare_for_search(text), text[1])
                  /\ ~HasText(text[1]) => prepare_for_search(text) = <<>>
    /\ \A tag_names \in SegmentedTagLists :
           LET kept == SelectSeq(tag_names, HasText)
           IN  /\ prepare_tags_for_search(tag_names) = SpaceSeparated(kept, Len(kept))
               /\ tag_names = <<>> => prepare_tags_for_search(tag_names) = <<>>

\* a record whose title starts with a blank, whose description is blank on
\* both sides and whose tags are an empty one, a word, a blank one and a
\* word has been indexed, next to a record with only blank tags
C28_Witness ==
    \E id, other \in DOMAIN resources \cap DOMAIN resources_fts :
        /\ resources[id].title = T_sp_RustGo
        /\ resources[id].description = Some(T_sp_fast_sp)
        /\ TagNames(DB, id, resources[id].user_id) = << <<>>, T_rust, <<" ">>, T_go >>
        /\ resources_fts[id].title = T_RustGo
        /\ resources_fts[id].description = T_fast
        /\ resources_fts[id].tags = T_rust \o <<" ">> \o T_go
        /\ resources[other].description = Some(T_blank)
        /\ TagNames(DB, other, resources[other].user_id) # <<>>
        /\ resources_fts[other].description = <<>>
        /\ resources_fts[other].tags = <<>>

\* C29: a successful index_resource(tx, id, user) leaves one resources_fts
\* row with rowid = id, holding the columns computed for the record - the
\* row is updated when there was one and inserted when there was none, so
\* the rowids are the old ones and id - and no row of another id changes;
\* a call that fails changes no row
C29_OneRowPerRecord ==
    [][\A user_id \in Users, resource_id \in ResourceIds :
           IndexResource(user_id, resource_id) =>
               IF reply'.ok
               THEN /\ resource_id \in DOMAIN resources_fts'
                    /\ resources_fts'[resource_id] = FtsRow(DB, resource_id, user_id)
                    /\ DOMAIN resources_fts' = DOMAIN resources_fts \cup {resource_id}
                    /\ \A other \in DOMAIN resources_fts : other # resource_id =>
                           resources_fts'[other] = resources_fts[other]
               ELSE resources_fts' = resources_fts]_vars

\* index_resource has succeeded on one of two records that both have a row
C29_Witness ==
    /\ reply.op = "index_resource"
    /\ reply.ok
    /\ Cardinality(DOMAIN resources_fts) = 2
    /\ \E a, b \in DOMAIN resources_fts : resources_fts[a] # resources_fts[b]

\* C30: a tag rename re-indexes in the same transaction - after an
\* update_tag that gave a new name and returned the tag, the shadow tags
\* column of every record linked to the tag (a resource through
\* resource_tags, a bookmark through bookmark_tags) holds the new name and,
\* when the name changed, not the old one; when the tag does not exist for
\* the user nothing changes
C30_TagRenameReindexes ==
    [][\A user_id \in Users, tag_id \in DOMAIN tags \cup {next_id.tags},
          update_data \in UpdateTags :
           UpdateTag(user_id, tag_id, update_data) =>
               /\ (reply'.ok /\ reply'.value = 1 /\ update_data.name # None) =>
                      LET old == tags[tag_id].name
                          new == update_data.name[1]
                          Renamed(column) ==
                              /\ new \in Tokenize(column)
                              /\ old # new => old \notin Tokenize(column)
                      IN  /\ \A id \in DOMAIN resources \cap DOMAIN resources_fts' :
                                 <<id, tag_id>> \in resource_tags =>
                                     Renamed(resources_fts'[id].tags)
                          /\ \A i \in 1..Len(BookmarkIdsOfTag(TagDB, tags[tag_id])) :
                                 LET id == BookmarkIdsOfTag(TagDB, tags[tag_id])[i]
                                 IN  /\ id \in DOMAIN bookmarks_fts'
                                     /\ Renamed(bookmarks_fts'[id].tags)
               /\ (reply'.ok /\ reply'.value = 0) =>
                      /\ tags' = tags
                      /\ bookmarks' = bookmarks
                      /\ bookmarks_fts' = bookmarks_fts
                      /\ resources_fts' = resources_fts]_vars

\* C31: delete_resource(user, id), when no resources row has that id with
\* that user_id, returns Ok(false) and leaves resources and resources_fts
\* as they were; the shadow row of another user's resource stays
C31_DeleteOfOthersChangesNothing ==
    [][\A user_id \in Users, resource_id \in ResourceIds :
           (/\ DeleteResource(user_id, resource_id)
            /\ ~(resource_id \in DOMAIN resources
                 /\ resources[resource_id].user_id = user_id)) =>
               /\ reply'.ok
               /\ reply'.value = 0
               /\ resources' = resources
               /\ resources_fts' = resources_fts]_vars

\* the resources whose tag names a step has changed
Retagged ==
    {id \in DOMAIN resources \cap DOMAIN resources' :
        TagNames(DBNext, id, resources[id].user_id) # TagNames(DB, id, resources[id].user_id)}

\* C32: shadow tags follow every tag change - after batch_process with
\* AddTags or RemoveTags and after delete_tag, the tags column of the shadow
\* row of every resource whose tags changed is the segmented list of the tag
\* names the resource has then
C32_ShadowTagsFollow ==
    [][reply'.op \in {"add_tags", "remove_tags", "delete_tag"} /\ reply'.ok =>
          \A id \in Retagged :
              /\ id \in DOMAIN resources_fts'
              /\ resources_fts'[id].tags
                     = prepare_tags_for_search(TagNames(DBNext, id, resources[id].user_id))]_vars

\* C33: a batch delete also removes from the search index - after
\* batch_process with action Delete, once the index is committed and
\* reloaded, no search returns a bookmark whose row is gone
C33_BatchDeleteDeindexes ==
    (reply.op = "batch_delete" /\ writer = committed /\ committed = searcher) =>
        \A user_id \in Users :
            \A bookmark_id \in AllHits(searcher, <<>>, user_id) :
                bookmark_id \in DOMAIN bookmarks

\* the calls of update_bookmark that have started and not returned
Updating == {t \in Threads : pc[t] \in {"update_delete", "update_unlocked", "update_add"}}

\* C34: update() is atomic with respect to commit - while one caller's
\* update of a record is in progress and other callers commit, no commit
\* publishes a snapshot without the record when the snapshot committed
\* before held it
C34_UpdateAtomicForCommit ==
    [][\A t \in Updating :
           IdIndexed(committed, arg[t].id) => IdIndexed(committed', arg[t].id)]_vars

\* every call has returned and the index is committed and reloaded
RaceSettled ==
    /\ \A t \in Threads : pc[t] = "idle"
    /\ committed = writer
    /\ searcher = committed

\* C35: after racing create_bookmark or update_bookmark and delete_bookmark
\* calls have returned and the index is committed and reloaded, the index
\* holds a document for a bookmark exactly if its row exists
C35_NoOrphanAfterRace ==
    RaceSettled =>
        \A bookmark_id \in 1..MaxDocs :
            IdIndexed(searcher, bookmark_id) <=> bookmark_id \in DOMAIN bookmarks

\* C36: the background rebuild_fts_index tolerates concurrent requests - no
\* full-text row is left for a deleted primary row, so a row the rebuild
\* inserts belongs to a bookmark that exists when it is inserted
C36_RebuildToleratesWrites ==
    [][rebuild'.count = rebuild.count + 1 =>
           /\ rebuild.rows # <<>>
           /\ Head(rebuild.rows).id \in DOMAIN bookmarks'
           /\ Head(rebuild.rows).id \in DOMAIN bookmarks_fts']_vars

\* the calls that hold the field cache ask for no other lock
HoldsCacheOnly == {"add_cached", "search_cached", "highlight_cached"}

\* C37: the index manager is free of deadlock: a caller that holds the
\* field cache never waits for the writer lock, and every started add,
\* update, delete, delete_by_user, commit, clear_all, search and highlight
\* call returns
C37_DeadlockFreedom ==
    /\ [](\A t \in Threads : field_cache = t => pc[t] \in HoldsCacheOnly)
    /\ \A t \in Threads : (pc[t] # "idle") ~> (pc[t] = "idle")

\* one caller holds the writer lock and waits for the field cache, which a
\* search holds
C37_Witness ==
    \E t \in Threads, u \in Threads :
        /\ pc[t] = "add" /\ writer_lock = t
        /\ pc[u] = "search_cached" /\ field_cache = u

\* the number of a user's bookmarks a query of search_bookmarks matches
TrueTotal(query, user_id) ==
    IF trim(query) = <<>>
    THEN Cardinality({id \in DOMAIN bookmarks : bookmarks[id].user_id = user_id})
    ELSE Cardinality(Matching(searcher, query, user_id))

\* C39: search_bookmarks reports the true total on every page - total is the
\* number of all matches of the query for the user and total_pages is
\* ceil(total / limit), also for a page at or past the end of the results
C39_TrueTotalOnEveryPage ==
    \A query \in PagingQueries, user_id \in Users, limit \in PageLimits, offset \in PageOffsets :
        LET resp == search_bookmarks(searcher, bookmarks, user_id, "All", query, limit, offset)
            total == TrueTotal(query, user_id)
        IN  /\ resp.total = total
            /\ resp.total_pages = (total + limit - 1) \div limit

\* the documents of a record id that a user owns
OwnDocsOf(snapshot, bookmark_id, user_id) ==
    {a \in DocsOf(snapshot, bookmark_id) : snapshot[a].user_id = user_id}

\* C38: highlighting respects the tenant scope - a highlight a user asks
\* for a record id of which the user owns no document is the empty result
\* of a record id that is not indexed
C38_HighlightTenantScope ==
    \A user_id \in Users, bookmark_id \in BookmarkIds \cup {FastBookmark.id},
       query \in HighlightWords :
        OwnDocsOf(searcher, bookmark_id, user_id) = {} =>
            service_generate_highlights(searcher, bookmark_id, query, "none") = EmptyTable

====
